---- MODULE Spec2Model ----
(***************************************************************************)
(* ghttp: the proxy route table (internal/server/proxy_routes.go), the     *)
(* proxy dispatcher and the WebSocket tunnel                               *)
(* (internal/server/proxy_handler.go).                                     *)
(*                                                                         *)
(* Strings are sequences of one-character strings, so that prefix tests,   *)
(* trimming, splitting, lower-casing and lengths are computed, not assumed.*)
(***************************************************************************)
EXTENDS Integers, Sequences, FiniteSets, TLC

VARIABLES
    \* -- the route table and the dispatcher's match
    \* -- the file handler chain of FileServer.buildFileHandler
    configuration,    \* the FileServerConfiguration
    fileSystem,       \* the tree under DirectoryPath, as http.FileSystem shows it
    handlers,         \* the chain buildFileHandler returned, outermost first
    stage,            \* index in handlers of the handler holding the request, 0 for none
    urlPath,          \* request.URL.Path as that handler receives it
    receivedURLPath,  \* URL.Path of the request object the server handed to the chain
    visited,          \* the handlers the request went through, each with the path it saw
    served,           \* what was written to the http.ResponseWriter, or NothingServed
    \* -- the logging wrapper (FileServer.wrapWithLogging)
    recorders,        \* the *statusRecorder of each request being served
    writerCalls,      \* what the server's http.ResponseWriter of each request received
    logged,           \* the status and byte count logged for each request
    \* -- one run of FileServer.Serve
    servePc,          \* where Serve stands
    ctxDone,          \* the context handed to Serve is cancelled
    listener,         \* the goroutine of ListenAndServe: what it is doing
    serverErrors,     \* the channel serverErrors, a sequence of at most one error
    inFlight,         \* the requests the http.Server is handling
    serveReturn,      \* what Serve returned, or NotReturned
    \* -- requests served concurrently by one proxyHandler
    dispatches,       \* per request: where its ServeHTTP call stands
    \* -- the buffered readers of one tunnel
    clientBuffer,     \* bytes in the reader Hijack returns, read from the client connection
    backendReader,    \* bytes in bufio.NewReader(backendConnection), not yet consumed
    \* -- the proxy configuration
    serveProxies,     \* the serve.proxies configuration value, a []string
    legacyPathPrefix, \* the pathPrefix handed to NewProxyRoutesFromLegacy
    legacyBackendURL, \* the backendURL handed to NewProxyRoutesFromLegacy
    routeMappings,   \* the []string handed to NewProxyRoutes
    built,           \* the (ProxyRoutes, error) it returned, or NotBuilt
    matchPath,       \* the request path last handed to matchRoute, or NoPath
    matchResult,     \* index into built.routes of the match, 0 for (nil,false)
    \* -- one request through proxyHandler.ServeHTTP
    pc,              \* where the handler of the current request stands
    request,         \* the *http.Request being served, or NoRequest
    writer,          \* what the http.ResponseWriter can do: see WriterKinds
    handledBy,       \* "none", "next", "httpProxy" or "webSocket"
    nextRequest,     \* the request handed to handler.next, or NoRequest
    outRequest,      \* the request the backend received, or NoOutRequest
    backendResponse, \* the response the backend produced, or NoResponse
    response,        \* what the client got through the ResponseWriter
    contacted,       \* hosts dialed or sent to while serving this request
    failedBefore,    \* the backend of an earlier request failed
    \* -- one tunnel (proxyRouteHandler.handleWebSocket)
    dialErr,         \* what dialing the backend returned, "-" before the dial
    backendConn,     \* backendConnection: "none", "open" or "closed"
    clientConn,      \* clientConnection: "none" (not taken over), "open", "closed"
    hijackCalled,    \* hijacker.Hijack() was called for this request
    upgradeSent,     \* the upgrade request written to the backend, or NoUpgradeRequest
    c2b,             \* the goroutine copying client -> backend
    b2c,             \* the goroutine copying backend -> client
    completionSignals, \* number of values in the channel (capacity 2)
    clientSent,      \* bytes the client has written after its request
    backendSent,     \* bytes the backend has written after its response
    clientStream,    \* client bytes not yet read by the tunnel
    backendStream,   \* backend bytes not yet read by the tunnel
    backendIn,       \* bytes the tunnel wrote to the backend
    clientIn,        \* bytes the tunnel wrote to the client
    clientEOF,       \* the client closed its end
    backendEOF       \* the backend closed its end

fileVars == <<configuration, fileSystem, handlers, stage, urlPath, receivedURLPath, visited,
              served>>

logVars == <<recorders, writerCalls, logged>>

serveVars == <<servePc, ctxDone, listener, serverErrors, inFlight, serveReturn>>

dispatchVars == <<dispatches>>

bufferVars == <<clientBuffer, backendReader>>

routeVars == <<serveProxies, legacyPathPrefix, legacyBackendURL, routeMappings, built, matchPath, matchResult>>

requestVars == <<pc, request, writer, handledBy, nextRequest, outRequest,
                 backendResponse, response, contacted, failedBefore>>

tunnelVars == <<dialErr, backendConn, clientConn, hijackCalled, upgradeSent, c2b, b2c,
                completionSignals, clientSent, backendSent, clientStream,
                backendStream, backendIn, clientIn, clientEOF, backendEOF>>

vars == <<fileVars, logVars, serveVars, dispatchVars, bufferVars, serveProxies, legacyPathPrefix, legacyBackendURL, routeMappings, built, matchPath, matchResult,
          pc, request, writer, handledBy, nextRequest, outRequest,
          backendResponse, response, contacted, failedBefore,
          dialErr, backendConn, clientConn, hijackCalled, upgradeSent, c2b, b2c,
          completionSignals, clientSent, backendSent, clientStream,
          backendStream, backendIn, clientIn, clientEOF, backendEOF>>

----------------------------------------------------------------------------
(* Bounds *)

MaxMappings == 3
MaxBytes == 2
MaxProxies == 2
MaxCalls == 2
MaxInFlight == 2

----------------------------------------------------------------------------
(* package strings *)

UpperLetters == <<"A","B","C","D","E","F","G","H","I","J","K","L","M",
                  "N","O","P","Q","R","S","T","U","V","W","X","Y","Z">>
LowerLetters == <<"a","b","c","d","e","f","g","h","i","j","k","l","m",
                  "n","o","p","q","r","s","t","u","v","w","x","y","z">>
Digits == {"0","1","2","3","4","5","6","7","8","9"}

IsUpper(c) == \E i \in 1..26 : UpperLetters[i] = c
IsLower(c) == \E i \in 1..26 : LowerLetters[i] = c
IsLetter(c) == IsUpper(c) \/ IsLower(c)

\* the lower-case letter of each upper-case one
UpperToLower ==
    [c \in {UpperLetters[i] : i \in 1..26} |->
        LowerLetters[CHOOSE i \in 1..26 : UpperLetters[i] = c]]

LowerChar(c) == IF c \in DOMAIN UpperToLower THEN UpperToLower[c] ELSE c

ToLower(s) == [i \in 1..Len(s) |-> LowerChar(s[i])]

EqualFold(s, t) == ToLower(s) = ToLower(t)

HasPrefix(s, prefix) ==
    /\ Len(prefix) <= Len(s)
    /\ SubSeq(s, 1, Len(prefix)) = prefix

HasSuffix(s, suffix) ==
    /\ Len(suffix) <= Len(s)
    /\ SubSeq(s, Len(s) - Len(suffix) + 1, Len(s)) = suffix

\* strings.Index: the 1-based position of the first occurrence, 0 if none
Index(s, sub) ==
    LET hits == {i \in 1..(Len(s) - Len(sub) + 1) :
                    SubSeq(s, i, i + Len(sub) - 1) = sub}
    IN IF hits = {} THEN 0
       ELSE CHOOSE i \in hits : \A j \in hits : i <= j

LastIndex(s, sub) ==
    LET hits == {i \in 1..(Len(s) - Len(sub) + 1) :
                    SubSeq(s, i, i + Len(sub) - 1) = sub}
    IN IF hits = {} THEN 0
       ELSE CHOOSE i \in hits : \A j \in hits : i >= j

Contains(s, sub) == Index(s, sub) # 0

IsSpace(c) == c \in {" ", "\t", "\n", "\r"}

RECURSIVE TrimLeft(_)
TrimLeft(s) ==
    IF s # <<>> /\ IsSpace(Head(s)) THEN TrimLeft(Tail(s)) ELSE s

RECURSIVE TrimRight(_)
TrimRight(s) ==
    IF s # <<>> /\ IsSpace(s[Len(s)])
    THEN TrimRight(SubSeq(s, 1, Len(s) - 1))
    ELSE s

TrimSpace(s) == TrimRight(TrimLeft(s))

\* strings.SplitN(s, sep, 2): one part when sep does not occur, else the text
\* before the first sep and everything after it
SplitN2(s, sep) ==
    LET at == Index(s, sep)
    IN IF at = 0 THEN <<s>>
       ELSE <<SubSeq(s, 1, at - 1), SubSeq(s, at + Len(sep), Len(s))>>

----------------------------------------------------------------------------
(* package net/url, as far as parseProxyBackendURL depends on it. The      *)
(* strings handled hold letters, digits and the characters . : / ? only.   *)

\* url.getScheme: <<ok, scheme, rest>>
RECURSIVE SchemeScan(_, _)
SchemeScan(raw, i) ==
    IF i > Len(raw) THEN [ok |-> TRUE, scheme |-> <<>>, rest |-> raw]
    ELSE LET c == raw[i] IN
         IF IsLetter(c) THEN SchemeScan(raw, i + 1)
         ELSE IF c \in Digits \cup {"+", "-", "."}
              THEN IF i = 1 THEN [ok |-> TRUE, scheme |-> <<>>, rest |-> raw]
                   ELSE SchemeScan(raw, i + 1)
         ELSE IF c = ":"
              THEN IF i = 1 THEN [ok |-> FALSE, scheme |-> <<>>, rest |-> raw]
                   ELSE [ok |-> TRUE, scheme |-> SubSeq(raw, 1, i - 1),
                         rest |-> SubSeq(raw, i + 1, Len(raw))]
         ELSE [ok |-> TRUE, scheme |-> <<>>, rest |-> raw]

\* url.validOptionalPort: "" or ":" followed by digits
ValidOptionalPort(port) ==
    \/ port = <<>>
    \/ /\ port[1] = ":"
       /\ \A i \in 2..Len(port) : port[i] \in Digits

\* url.parseHost (no IPv6 literal, no escapes)
ParseHostOK(host) ==
    LET colon == LastIndex(host, <<":">>)
    IN colon = 0 \/ ValidOptionalPort(SubSeq(host, colon, Len(host)))

URLError == [ok |-> FALSE, Scheme |-> <<>>, Host |-> <<>>, Path |-> <<>>, RawQuery |-> <<>>]

\* url.parse, once the authority "//host[:port]" has been found in front of
\* the path: slash is where the path starts in afterSlashes, 0 if it has none
URLParseAuthority(scheme, afterSlashes, slash, rawQuery) ==
    IF ~ParseHostOK(IF slash = 0 THEN afterSlashes ELSE SubSeq(afterSlashes, 1, slash - 1))
    THEN URLError
    ELSE [ok       |-> TRUE,
          Scheme   |-> scheme,
          Host     |-> IF slash = 0 THEN afterSlashes ELSE SubSeq(afterSlashes, 1, slash - 1),
          Path     |-> IF slash = 0 THEN <<>> ELSE SubSeq(afterSlashes, slash, Len(afterSlashes)),
          RawQuery |-> rawQuery]

\* the first path segment of a URL without scheme must hold no colon
FirstSegment(rest, slash) ==
    IF slash = 0 THEN rest ELSE SubSeq(rest, 1, slash - 1)

\* url.parse, after the scheme and the query have been cut off
URLParseRest(scheme, rest, rawQuery) ==
    IF ~HasPrefix(rest, <<"/">>)
    THEN IF scheme # <<>>
         THEN \* an opaque URL: it has no host
              [ok |-> TRUE, Scheme |-> scheme, Host |-> <<>>, Path |-> <<>>, RawQuery |-> rawQuery]
         ELSE IF Contains(FirstSegment(rest, Index(rest, <<"/">>)), <<":">>)
         THEN URLError
         ELSE [ok |-> TRUE, Scheme |-> scheme, Host |-> <<>>, Path |-> rest, RawQuery |-> rawQuery]
    ELSE IF (scheme # <<>> \/ ~HasPrefix(rest, <<"/","/","/">>)) /\ HasPrefix(rest, <<"/","/">>)
    THEN URLParseAuthority(scheme, SubSeq(rest, 3, Len(rest)),
                           Index(SubSeq(rest, 3, Len(rest)), <<"/">>), rawQuery)
    ELSE [ok |-> TRUE, Scheme |-> scheme, Host |-> <<>>, Path |-> rest, RawQuery |-> rawQuery]

\* url.parse, after getScheme: the query is what follows the first "?"
URLParseQuery(scheme, rest, qAt) ==
    IF qAt = 0 THEN URLParseRest(scheme, rest, <<>>)
    ELSE URLParseRest(scheme, SubSeq(rest, 1, qAt - 1), SubSeq(rest, qAt + 1, Len(rest)))

URLParseScheme(sch) ==
    IF ~sch.ok THEN URLError
    ELSE URLParseQuery(ToLower(sch.scheme), sch.rest, Index(sch.rest, <<"?">>))

\* url.Parse
URLParse(rawURL) == URLParseScheme(SchemeScan(rawURL, 1))

\* (*url.URL).Hostname: the host without its port (url.stripPort)
Hostname(host) ==
    LET colon == Index(host, <<":">>)
    IN IF colon = 0 THEN host ELSE SubSeq(host, 1, colon - 1)

----------------------------------------------------------------------------
(* internal/server/proxy_routes.go *)

proxyMappingSeparator == <<"=">>
proxyPathPrefixStart  == <<"/">>
proxySchemeHTTP       == <<"h","t","t","p">>
proxySchemeHTTPS      == <<"h","t","t","p","s">>

NoError               == "nil"
ErrInvalidProxyRoute  == "proxy.route.invalid"
ErrInvalidProxyRoutes == "proxy.routes.invalid"

NoURL == [Scheme |-> <<>>, Host |-> <<>>, Path |-> <<>>, RawQuery |-> <<>>]
NoRoute == [pathPrefix |-> <<>>, backendURL |-> NoURL]

\* the checks without the last one, on the host's form
checkParsedBackendURLAnyHost(parsedURL) ==
    IF ~parsedURL.ok
    THEN [err |-> ErrInvalidProxyRoute, url |-> NoURL]
    ELSE IF ~EqualFold(parsedURL.Scheme, proxySchemeHTTP) /\ ~EqualFold(parsedURL.Scheme, proxySchemeHTTPS)
    THEN [err |-> ErrInvalidProxyRoute, url |-> NoURL]
    ELSE IF parsedURL.Host = <<>>
    THEN [err |-> ErrInvalidProxyRoute, url |-> NoURL]
    ELSE [err |-> NoError,
          url |-> [Scheme |-> parsedURL.Scheme, Host |-> parsedURL.Host,
                   Path |-> parsedURL.Path, RawQuery |-> parsedURL.RawQuery]]

\* the checks parseProxyBackendURL makes on what url.Parse returned
checkParsedBackendURL(parsedURL) ==
    IF ~parsedURL.ok
    THEN [err |-> ErrInvalidProxyRoute, url |-> NoURL]
    ELSE IF ~EqualFold(parsedURL.Scheme, proxySchemeHTTP) /\ ~EqualFold(parsedURL.Scheme, proxySchemeHTTPS)
    THEN [err |-> ErrInvalidProxyRoute, url |-> NoURL]
    ELSE IF parsedURL.Host = <<>>
    THEN [err |-> ErrInvalidProxyRoute, url |-> NoURL]
    ELSE IF \/ Hostname(parsedURL.Host) = <<>>
            \/ HasSuffix(parsedURL.Host, <<":">>)
            \/ Contains(Hostname(parsedURL.Host), <<"/","/">>)
    THEN [err |-> ErrInvalidProxyRoute, url |-> NoURL]
    ELSE [err |-> NoError,
          url |-> [Scheme |-> parsedURL.Scheme, Host |-> parsedURL.Host,
                   Path |-> parsedURL.Path, RawQuery |-> parsedURL.RawQuery]]

parseProxyBackendURL(backendURL) ==
    IF TrimSpace(backendURL) = <<>>
    THEN [err |-> ErrInvalidProxyRoute, url |-> NoURL]
    ELSE checkParsedBackendURL(URLParse(backendURL))

\* newProxyRoute, once the backend URL has been parsed
routeWithBackend(pathPrefix, parsed) ==
    IF parsed.err # NoError
    THEN [err |-> parsed.err, route |-> NoRoute]
    ELSE [err |-> NoError,
          route |-> [pathPrefix |-> pathPrefix, backendURL |-> parsed.url]]

newProxyRoute(pathPrefix, backendURL) ==
    IF pathPrefix = <<>>
    THEN [err |-> ErrInvalidProxyRoute, route |-> NoRoute]
    ELSE IF ~HasPrefix(pathPrefix, proxyPathPrefixStart)
    THEN [err |-> ErrInvalidProxyRoute, route |-> NoRoute]
    ELSE routeWithBackend(pathPrefix, parseProxyBackendURL(backendURL))

\* parseProxyMapping, once the mapping has been split at the separator
routeFromParts(parts) ==
    IF Len(parts) # 2
    THEN [err |-> ErrInvalidProxyRoute, route |-> NoRoute]
    ELSE newProxyRoute(TrimSpace(parts[1]), TrimSpace(parts[2]))

parseProxyMapping(mapping) ==
    IF TrimSpace(mapping) = <<>>
    THEN [err |-> ErrInvalidProxyRoute, route |-> NoRoute]
    ELSE routeFromParts(SplitN2(TrimSpace(mapping), proxyMappingSeparator))

\* a less function that also holds for equal lengths
LongerOrEqualPrefixFirst(left, right) == Len(left.pathPrefix) >= Len(right.pathPrefix)

\* the less function handed to sort.SliceStable
LongerPrefixFirst(left, right) == Len(left.pathPrefix) > Len(right.pathPrefix)

\* sort.SliceStable on a short slice is insertion sort: each element in turn
\* is swapped leftwards while it is less than its left neighbour
RECURSIVE InsertStable(_, _)
InsertStable(sorted, route) ==
    IF sorted = <<>> THEN <<route>>
    ELSE IF LongerPrefixFirst(route, sorted[Len(sorted)])
         THEN InsertStable(SubSeq(sorted, 1, Len(sorted) - 1), route)
                  \o <<sorted[Len(sorted)]>>
         ELSE Append(sorted, route)

\* the routes left in the order they were given
SliceUnsorted(routes) == routes

RECURSIVE SliceStable(_)
SliceStable(routes) ==
    IF routes = <<>> THEN <<>>
    ELSE InsertStable(SliceStable(SubSeq(routes, 1, Len(routes) - 1)), routes[Len(routes)])

\* the loop of NewProxyRoutes over routeMappings[i..], with the routes parsed
\* and the prefixes seen so far
RECURSIVE ParseMappings(_, _, _, _)
\* one turn of a loop that does not look at seenPrefixes
ParseMappingsStepNoDuplicateCheck(mappings, i, seenPrefixes, parsedRoutes, parsed) ==
    IF parsed.err # NoError
    THEN [err |-> parsed.err, routes |-> <<>>]
    ELSE ParseMappings(mappings, i + 1,
                       seenPrefixes \cup {parsed.route.pathPrefix},
                       Append(parsedRoutes, parsed.route))

\* one turn of the loop, with mappings[i] parsed
ParseMappingsStep(mappings, i, seenPrefixes, parsedRoutes, parsed) ==
    IF parsed.err # NoError
    THEN [err |-> parsed.err, routes |-> <<>>]
    ELSE IF parsed.route.pathPrefix \in seenPrefixes
    THEN [err |-> ErrInvalidProxyRoutes, routes |-> <<>>]
    ELSE ParseMappings(mappings, i + 1,
                       seenPrefixes \cup {parsed.route.pathPrefix},
                       Append(parsedRoutes, parsed.route))

ParseMappings(mappings, i, seenPrefixes, parsedRoutes) ==
    IF i > Len(mappings)
    THEN [err |-> NoError, routes |-> SliceStable(parsedRoutes)]
    ELSE ParseMappingsStep(mappings, i, seenPrefixes, parsedRoutes,
                           parseProxyMapping(mappings[i]))

\* a NewProxyRoutes that parses every mapping before it compares prefixes
NewProxyRoutesParseAllFirst(mappings) ==
    LET bad == {i \in 1..Len(mappings) : parseProxyMapping(mappings[i]).err # NoError}
    IN IF bad # {}
       THEN [err |-> ErrInvalidProxyRoute, routes |-> <<>>]
       ELSE IF Len(mappings) = 0
       THEN [err |-> NoError, routes |-> <<>>]
       ELSE ParseMappings(mappings, 1, {}, <<>>)

NewProxyRoutes(mappings) ==
    IF Len(mappings) = 0
    THEN [err |-> NoError, routes |-> <<>>]
    ELSE ParseMappings(mappings, 1, {}, <<>>)

\* NewProxyRoutesFromLegacy, once newProxyRoute has returned
singleRouteTable(made) ==
    IF made.err # NoError
    THEN [err |-> made.err, routes |-> <<>>]
    ELSE [err |-> NoError, routes |-> <<made.route>>]

\* a constructor that takes the proxy as disabled when either argument is empty
NewProxyRoutesFromLegacyEitherEmpty(pathPrefix, backendURL) ==
    IF TrimSpace(pathPrefix) = <<>> \/ TrimSpace(backendURL) = <<>>
    THEN [err |-> NoError, routes |-> <<>>]
    ELSE singleRouteTable(newProxyRoute(TrimSpace(pathPrefix), TrimSpace(backendURL)))

NewProxyRoutesFromLegacy(pathPrefix, backendURL) ==
    IF TrimSpace(pathPrefix) = <<>> /\ TrimSpace(backendURL) = <<>>
    THEN [err |-> NoError, routes |-> <<>>]
    ELSE singleRouteTable(newProxyRoute(TrimSpace(pathPrefix), TrimSpace(backendURL)))

IsEmpty(proxyRoutes) == Len(proxyRoutes.routes) = 0

\* a count of the backends in place of the routes
CountBackends(proxyRoutes) ==
    Cardinality({proxyRoutes.routes[i].backendURL : i \in 1..Len(proxyRoutes.routes)})

Count(proxyRoutes) == Len(proxyRoutes.routes)

----------------------------------------------------------------------------
(* internal/app/proxy_routes.go *)

errInvalidProxyConfiguration == "proxy.configuration.invalid"

Str_comma == <<",">>

\* strings.Split(s, sep) for a one-character sep
RECURSIVE Split(_, _)
Split(s, sep) ==
    IF Index(s, sep) = 0 THEN <<s>>
    ELSE <<SubSeq(s, 1, Index(s, sep) - 1)>>
             \o Split(SubSeq(s, Index(s, sep) + 1, Len(s)), sep)

\* the trimmed segments that are not empty, in order
RECURSIVE trimmedSegments(_)
trimmedSegments(segments) ==
    IF segments = <<>> THEN <<>>
    ELSE IF TrimSpace(Head(segments)) = <<>> THEN trimmedSegments(Tail(segments))
    ELSE <<TrimSpace(Head(segments))>> \o trimmedSegments(Tail(segments))

\* an entry taken whole, commas and all
normalizeMappingWhole(mapping) ==
    IF TrimSpace(mapping) = <<>> THEN <<>> ELSE <<TrimSpace(mapping)>>

\* one turn of the loop of normalizeProxyMappings: what the entry appends
normalizeMapping(mapping) ==
    IF TrimSpace(mapping) = <<>> THEN <<>>
    ELSE IF Contains(TrimSpace(mapping), Str_comma)
    THEN trimmedSegments(Split(TrimSpace(mapping), Str_comma))
    ELSE <<TrimSpace(mapping)>>

RECURSIVE normalizeProxyMappings(_)
normalizeProxyMappings(proxyMappings) ==
    IF Len(proxyMappings) = 0 THEN proxyMappings
    ELSE normalizeProxyMappings(SubSeq(proxyMappings, 1, Len(proxyMappings) - 1))
             \o normalizeMapping(proxyMappings[Len(proxyMappings)])

\* resolveProxyRoutes, with the list normalized and the legacy values trimmed
resolveNormalized(proxyMappings, legacyBackend, legacyPrefix) ==
    IF Len(proxyMappings) > 0
    THEN IF legacyBackend # <<>> \/ legacyPrefix # <<>>
         THEN [err |-> errInvalidProxyConfiguration, routes |-> <<>>]
         ELSE NewProxyRoutes(proxyMappings)
    ELSE IF legacyBackend = <<>> /\ legacyPrefix = <<>>
    THEN [err |-> NoError, routes |-> <<>>]
    ELSE IF legacyBackend = <<>> \/ legacyPrefix = <<>>
    THEN [err |-> errInvalidProxyConfiguration, routes |-> <<>>]
    ELSE NewProxyRoutesFromLegacy(legacyPrefix, legacyBackend)

\* a resolution in which the list, when present, silently wins over the legacy pair
resolveProxyRoutesListWins(proxies, backend, pathPrefix) ==
    IF Len(normalizeProxyMappings(proxies)) > 0
    THEN NewProxyRoutes(normalizeProxyMappings(proxies))
    ELSE resolveNormalized(<<>>, TrimSpace(backend), TrimSpace(pathPrefix))

\* the errors of NewProxyRoutes and NewProxyRoutesFromLegacy are wrapped with
\* %w and stay what errors.Is finds
resolveProxyRoutes(proxies, backend, pathPrefix) ==
    resolveNormalized(normalizeProxyMappings(proxies),
                      TrimSpace(backend), TrimSpace(pathPrefix))

----------------------------------------------------------------------------
(* internal/server/proxy_handler.go: route matching *)

\* a matchRoute that falls through to the first route when no prefix matches
matchRouteOrFirst(routes, requestPath) ==
    LET hits == {i \in 1..Len(routes) : HasPrefix(requestPath, routes[i].pathPrefix)}
    IN IF hits = {} THEN (IF Len(routes) = 0 THEN 0 ELSE 1)
       ELSE CHOOSE i \in hits : \A j \in hits : i <= j

\* proxyHandler.matchRoute: the index of the first route whose pathPrefix is
\* a prefix of requestPath, 0 when there is none (nil, false)
matchRoute(routes, requestPath) ==
    LET hits == {i \in 1..Len(routes) : HasPrefix(requestPath, routes[i].pathPrefix)}
    IN IF hits = {} THEN 0
       ELSE CHOOSE i \in hits : \A j \in hits : i <= j

----------------------------------------------------------------------------
(* Inputs of the route-table specification *)

Str_api      == <<"/","a","p","i">>
Str_app      == <<"/","a","p","p">>
Str_internal == <<"/","i","n","t","e","r","n","a","l">>
Str_httpH    == <<"h","t","t","p",":","/","/","h">>
Str_httpG    == <<"h","t","t","p",":","/","/","g",":","8","0">>
Str_httpsH   == <<"H","T","T","P","S",":","/","/","h",":","4","4","3">>
Str_eq       == <<"=">>

\* "<prefix>=<backend-url>" mappings: well-formed ones with prefixes of
\* different and of equal lengths, one that needs trimming, and malformed ones
MappingPool ==
    { Str_api \o Str_eq \o Str_httpH,                       \* /api=http://h
      Str_api \o Str_internal \o Str_eq \o Str_httpG,        \* /api/internal=http://g:80
      Str_app \o Str_eq \o Str_httpsH,                      \* /app=HTTPS://h:443
      <<"/">> \o Str_eq \o Str_httpH,                       \* /=http://h
      <<" ">> \o Str_api \o <<" ">> \o Str_eq \o <<" ">> \o Str_httpG \o <<" ">>,  \* " /api = http://g:80 "
      Str_api,                                              \* /api        (no separator)
      Str_eq \o Str_httpH,                                  \* =http://h   (no prefix)
      <<"a","p","i">> \o Str_eq \o Str_httpH,                \* api=http://h
      Str_api \o Str_eq,                                    \* /api=       (no backend)
      Str_api \o Str_eq \o <<"f","t","p",":","/","/","h">>,  \* /api=ftp://h
      Str_api \o Str_eq \o <<"h","t","t","p",":","/","/">>,  \* /api=http://  (no host)
      Str_app \o Str_eq \o Str_httpH \o <<":">>,            \* /app=http://h:
      Str_api \o Str_eq \o Str_httpH \o <<":","x">>         \* /api=http://h:x (does not parse)
    }

\* arguments of NewProxyRoutesFromLegacy: empty, blank, well-formed with and
\* without surrounding blanks, and malformed ones
LegacyPrefixPool ==
    { <<>>,
      <<" ">>,
      Str_api,                                              \* /api
      <<" ">> \o Str_api \o <<" ">>,                        \* " /api "
      <<"a","p","i">>,                                      \* api
      <<"/","a">> \o Str_eq \o <<"b">>                      \* /a=b
    }

LegacyBackendPool ==
    { <<>>,
      <<" ">>,
      Str_httpH,                                            \* http://h
      <<" ">> \o Str_httpG \o <<" ">>,                      \* " http://g:80 "
      <<"f","t","p",":","/","/","h">>,                       \* ftp://h
      Str_httpH \o <<":">>,                                 \* http://h:
      <<"h","t","t","p",":","/","/">>                        \* http://
    }

\* serve.proxies entries: single mappings, comma-delimited ones with and
\* without blanks and empty segments, a blank entry, a repeated prefix
ProxiesPool ==
    { Str_api \o Str_eq \o Str_httpH,                                        \* /api=http://h
      Str_app \o Str_eq \o Str_httpsH,                                       \* /app=HTTPS://h:443
      Str_api \o Str_eq \o Str_httpH \o Str_comma \o Str_app \o Str_eq \o Str_httpsH,
      <<" ">> \o Str_api \o Str_internal \o Str_eq \o Str_httpG \o <<" ",","," ",","," ">>
          \o <<"/">> \o Str_eq \o Str_httpH \o <<" ",",">>,              \* " /api/internal=http://g:80 , , /=http://h ,"
      <<" ">>,
      Str_api,                                                              \* /api (no separator)
      Str_app \o Str_eq \o Str_httpH \o Str_comma \o Str_app \o Str_eq \o Str_httpG
    }

\* the legacy configuration values: unset, blank, set
LegacyPrefixValues  == {<<>>, <<" ">>, Str_api}
LegacyBackendValues == {<<>>, <<" ">>, Str_httpG}

RECURSIVE SeqsUpTo(_, _)
SeqsUpTo(S, n) ==
    IF n = 0 THEN {<<>>}
    ELSE LET shorter == SeqsUpTo(S, n - 1)
         IN shorter \cup {Append(q, x) : q \in {r \in shorter : Len(r) = n - 1}, x \in S}

PathPool ==
    { Str_api \o Str_internal \o <<"/","x">>,               \* /api/internal/x
      Str_api \o <<"/","o","t","h","e","r">>,                \* /api/other
      Str_api \o <<"e","x","t","r","a">>,                    \* /apiextra
      Str_app,                                              \* /app
      <<"/","a","p">>,                                      \* /ap
      <<"/","s","t","a","t","i","c">>                       \* /static
    }

NotBuilt == [err |-> "not built", routes |-> <<>>]
NoPath == <<"-">>

----------------------------------------------------------------------------
(* net/http values *)

StatusOK                  == 200
StatusSwitchingProtocols  == 101
StatusNotFound            == 404
StatusInternalServerError == 500
StatusBadGateway          == 502

headerConnection == "Connection"
headerHost       == "Host"
headerUpgrade    == "Upgrade"
valueUpgrade     == <<"u","p","g","r","a","d","e">>
valueWebSocket   == <<"w","e","b","s","o","c","k","e","t">>

Str_Upgrade   == <<"U","p","g","r","a","d","e">>
Str_keepalive == <<"k","e","e","p","-","a","l","i","v","e">>
Str_WebSocket == <<"W","e","b","S","o","c","k","e","t">>
Str_h2c       == <<"h","2","c">>
Str_proxyHost == <<"p",":","8","0","0","0">>

\* the values of a header field, one per header line
ConnectionPool ==
    { <<>>,                                         \* no Connection header
      <<Str_Upgrade>>,                              \* Connection: Upgrade
      <<Str_keepalive \o <<",", " ">> \o Str_Upgrade>>, \* Connection: keep-alive, Upgrade
      <<Str_keepalive>>,                            \* Connection: keep-alive
      <<Str_keepalive, Str_Upgrade>>,               \* two Connection lines
      <<valueUpgrade \o <<"d">>>> }                 \* Connection: upgraded

UpgradePool ==
    { <<>>,
      <<valueWebSocket>>,
      <<Str_WebSocket>>,
      <<Str_h2c>>,
      <<valueWebSocket, Str_h2c>> }                 \* two Upgrade lines

\* the request line's protocol: Proto, ProtoMajor, ProtoMinor
ProtoHTTP10 == [Proto |-> "HTTP/1.0", ProtoMajor |-> 1, ProtoMinor |-> 0]
ProtoHTTP11 == [Proto |-> "HTTP/1.1", ProtoMajor |-> 1, ProtoMinor |-> 1]

NoRequest == [Method |-> "-", Path |-> <<>>, RawQuery |-> <<>>, Body |-> <<>>,
              Proto |-> "-", ProtoMajor |-> 0, ProtoMinor |-> 0,
              Host |-> <<>>,
              Header |-> [Connection |-> <<>>, Upgrade |-> <<>>, Origin |-> <<>>]]

GetRequest(path, connection, upgrade) ==
    [Method |-> "GET", Path |-> path, RawQuery |-> <<>>, Body |-> <<>>,
     Proto |-> ProtoHTTP11.Proto, ProtoMajor |-> ProtoHTTP11.ProtoMajor,
     ProtoMinor |-> ProtoHTTP11.ProtoMinor,
     Host |-> Str_proxyHost,
     Header |-> [Connection |-> connection, Upgrade |-> upgrade,
                 Origin |-> <<Str_proxyHost>>]]

PostRequest(path, connection, upgrade) ==
    [Method |-> "POST", Path |-> path, RawQuery |-> <<"q","=","1">>,
     Body |-> <<"d","a","t","a">>,
     Proto |-> ProtoHTTP10.Proto, ProtoMajor |-> ProtoHTTP10.ProtoMajor,
     ProtoMinor |-> ProtoHTTP10.ProtoMinor,
     Host |-> Str_proxyHost,
     Header |-> [Connection |-> connection, Upgrade |-> upgrade, Origin |-> <<>>]]

\* requests a client can send: every header combination on a GET of a path
\* under /api; plain and upgrade requests for the other paths; requests with
\* another method, a query string and a body
RequestPool ==
    { GetRequest(Str_api \o <<"e","x","t","r","a">>, connection, upgrade) :
        connection \in ConnectionPool, upgrade \in UpgradePool }
    \cup
    { GetRequest(path, header[1], header[2]) :
        path \in { Str_api \o Str_internal \o <<"/","x">>,
                   Str_api \o <<"/","o","t","h","e","r">>,
                   <<"/","s","t","a","t","i","c">> },
        header \in { <<<<>>, <<>>>>, <<<<Str_Upgrade>>, <<valueWebSocket>>>> } }
    \cup
    { PostRequest(path, <<Str_keepalive>>, <<>>) :
        path \in { Str_api \o Str_internal \o <<"/","x">>,
                   <<"/","s","t","a","t","i","c">> } }
    \cup
    { PostRequest(Str_api \o <<"/","o","t","h","e","r">>, <<Str_Upgrade>>, <<Str_WebSocket>>) }

\* http.Header.Get: the first value of the field, "" when it is absent
HeaderGet(header, key) ==
    IF header[key] = <<>> THEN <<>> ELSE header[key][1]

\* the ResponseWriter handed to ServeHTTP: one that is no http.Hijacker, one
\* whose Hijack fails, one whose Hijack succeeds. Nothing reads which it is
\* before the type assertion in handleWebSocket, where the model settles it
BaseWriters == {"noHijacker", "hijackFails", "hijackable"}

\* newStatusRecorder(responseWriter): the *statusRecorder wrapWithLogging
\* hands to the handler in place of the server's writer
newStatusRecorder(w) ==
    CASE w = "noHijacker"  -> "statusRecorder{noHijacker}"
      [] w = "hijackFails" -> "statusRecorder{hijackFails}"
      [] w = "hijackable"  -> "statusRecorder{hijackable}"

\* the writers a handler is called with: the server's, or a statusRecorder
WriterKinds == BaseWriters \cup {newStatusRecorder(w) : w \in BaseWriters}

NoOutRequest == [Method |-> "-", URLScheme |-> <<>>, URLHost |-> <<>>, Path |-> <<>>,
                 RawQuery |-> <<>>, Body |-> <<>>, Host |-> <<>>]
NoResponse == [status |-> 0, headers |-> {}, body |-> <<>>, complete |-> FALSE]

NoUpgradeRequest ==
    [Method |-> "-", URL |-> [Scheme |-> <<>>, Host |-> <<>>, Path |-> <<>>, RawQuery |-> <<>>],
     Proto |-> "-", ProtoMajor |-> 0, ProtoMinor |-> 0,
     Header |-> [Connection |-> <<>>, Upgrade |-> <<>>, Origin |-> <<>>, Host |-> <<>>],
     Host |-> <<>>]

TunnelInit ==
    /\ dialErr = "-"
    /\ backendConn = "none"
    /\ clientConn = "none"
    /\ hijackCalled = FALSE
    /\ upgradeSent = NoUpgradeRequest
    /\ c2b = "none"
    /\ b2c = "none"
    /\ completionSignals = 0
    /\ clientSent = 0
    /\ backendSent = 0
    /\ clientStream = <<>>
    /\ backendStream = <<>>
    /\ backendIn = <<>>
    /\ clientIn = <<>>
    /\ clientEOF = FALSE
    /\ backendEOF = FALSE

\* a new request starts with no tunnel
ResetTunnel ==
    /\ dialErr' = "-"
    /\ backendConn' = "none"
    /\ clientConn' = "none"
    /\ hijackCalled' = FALSE
    /\ upgradeSent' = NoUpgradeRequest
    /\ c2b' = "none"
    /\ b2c' = "none"
    /\ completionSignals' = 0
    /\ clientSent' = 0
    /\ backendSent' = 0
    /\ clientStream' = <<>>
    /\ backendStream' = <<>>
    /\ backendIn' = <<>>
    /\ clientIn' = <<>>
    /\ clientEOF' = FALSE
    /\ backendEOF' = FALSE

RequestInit ==
    /\ pc = "idle"
    /\ request = NoRequest
    /\ writer = "unused"
    /\ handledBy = "none"
    /\ nextRequest = NoRequest
    /\ outRequest = NoOutRequest
    /\ backendResponse = NoResponse
    /\ response = NoResponse
    /\ contacted = {}
    /\ failedBefore = FALSE
    /\ TunnelInit

----------------------------------------------------------------------------
(* packages path and path/filepath, on slash-separated paths *)

Str_slash == <<"/">>

\* the elements of a path that path.Clean keeps: no empty one, no ".", and
\* ".." removes the element before it
RECURSIVE CleanElements(_, _)
CleanElements(elements, kept) ==
    IF elements = <<>> THEN kept
    ELSE IF Head(elements) \in {<<>>, <<".">>}
    THEN CleanElements(Tail(elements), kept)
    ELSE IF Head(elements) = <<".", ".">>
    THEN CleanElements(Tail(elements),
                       IF kept = <<>> THEN kept ELSE SubSeq(kept, 1, Len(kept) - 1))
    ELSE CleanElements(Tail(elements), Append(kept, Head(elements)))

\* the elements of a rooted path
PathElements(path) == CleanElements(Split(path, Str_slash), <<>>)

RECURSIVE RootedPath(_)
RootedPath(elements) ==
    IF elements = <<>> THEN <<>>
    ELSE Str_slash \o Head(elements) \o RootedPath(Tail(elements))

\* path.Clean of a rooted path
Clean(path) ==
    IF PathElements(path) = <<>> THEN Str_slash ELSE RootedPath(PathElements(path))

\* path.Join of a rooted directory and a name
Join(directoryPath, name) == Clean(directoryPath \o Str_slash \o name)

\* path.Base
Base(path) ==
    IF path = <<>> THEN <<".">>
    ELSE IF PathElements(path) = <<>> THEN Str_slash
    ELSE PathElements(path)[Len(PathElements(path))]

\* filepath.Ext of a file name: the suffix from its last dot
Ext(fileName) ==
    IF LastIndex(fileName, <<".">>) = 0 THEN <<>>
    ELSE SubSeq(fileName, LastIndex(fileName, <<".">>), Len(fileName))

----------------------------------------------------------------------------
(* net/http.Dir: the served tree *)

Str_index_html == <<"i","n","d","e","x",".","h","t","m","l">>
Str_index_htm  == <<"i","n","d","e","x",".","h","t","m">>
Str_README_md  == <<"R","E","A","D","M","E",".","m","d">>
Str_ReadMe_MD  == <<"R","e","a","d","M","e",".","M","D">>
Str_notes_md   == <<"n","o","t","e","s",".","m","d">>
Str_guide_MD   == <<"g","u","i","d","e",".","M","D">>
Str_a_txt      == <<"a",".","t","x","t">>
Str_sub        == <<"s","u","b">>
Str_locked     == <<"l","o","c","k","e","d">>
Str_broken     == <<"b","r","o","k","e","n">>

\* what a name of the tree is: a regular file, a directory, a directory whose
\* Readdir fails, a file whose Stat fails, a file whose Open is refused
NodeKinds == {"file", "dir", "dirReadFails", "statFails", "noPermission"}

File(name) == [name |-> name, kind |-> "file"]
Dir(name)  == [name |-> name, kind |-> "dir"]

NoNode   == [found |-> FALSE, name |-> <<>>, kind |-> "absent"]
RootNode == [found |-> TRUE, name |-> Str_slash, kind |-> "dir"]

\* the entry of that name in a directory, entries being in Readdir order
EntryNamed(entries, name) ==
    IF \E i \in 1..Len(entries) : entries[i].name = name
    THEN [found |-> TRUE, name |-> name,
          kind |-> entries[CHOOSE i \in 1..Len(entries) : entries[i].name = name].kind]
    ELSE NoNode

IsDirKind(kind) == kind \in {"dir", "dirReadFails"}

\* the entries of the directory with these path elements: the root, or its
\* one subdirectory that has entries
Children(tree, elements) ==
    IF elements = <<>> THEN tree.root
    ELSE IF elements = <<Str_sub>> /\ IsDirKind(EntryNamed(tree.root, Str_sub).kind)
    THEN tree.sub
    ELSE <<>>

\* the node the path elements lead to
NodeAt(tree, elements) ==
    IF elements = <<>> THEN RootNode
    ELSE IF Len(elements) > 2 THEN NoNode
    ELSE EntryNamed(Children(tree, SubSeq(elements, 1, Len(elements) - 1)),
                    elements[Len(elements)])

\* http.Dir.Open(name) opens path.Clean("/" + name) under the directory
Open(tree, name) == NodeAt(tree, PathElements(Str_slash \o name))

OpenFails(node) == ~node.found \/ node.kind = "noPermission"
StatFails(node) == node.kind = "statFails"
IsDir(node)     == IsDirKind(node.kind)
ReaddirFails(node) == node.kind = "dirReadFails"

\* File.Readdir(-1) of an open directory
Readdir(tree, name) == Children(tree, PathElements(Str_slash \o name))

----------------------------------------------------------------------------
(* What a handler of the file chain does with a request *)

StatusMovedPermanently == 301
StatusForbidden        == 403

errorMessageDirectoryListingDisabled == "Directory listing disabled"

NothingServed ==
    [status |-> 0, location |-> <<>>, kind |-> "none", of |-> <<>>, message |-> ""]

\* http.ServeContent of the file at a path, for a request without conditions or ranges
ServeContent(filePath) ==
    [status |-> StatusOK, location |-> <<>>, kind |-> "file", of |-> filePath, message |-> ""]

\* http.ServeContent of the HTML document rendered from a Markdown file
ServeRendered(markdownPath) ==
    [status |-> StatusOK, location |-> <<>>, kind |-> "markdown", of |-> markdownPath,
     message |-> ""]

\* a generated listing of the directory, written without WriteHeader
ServeListing(directoryPath) ==
    [status |-> StatusOK, location |-> <<>>, kind |-> "listing", of |-> directoryPath,
     message |-> ""]

\* http.Error
Error(message, code) ==
    [status |-> code, location |-> <<>>, kind |-> "error", of |-> <<>>, message |-> message]

\* net/http's localRedirect
localRedirect(newPath) ==
    [status |-> StatusMovedPermanently, location |-> newPath, kind |-> "redirect",
     of |-> <<>>, message |-> ""]

\* handler.next.ServeHTTP(responseWriter, request), request.URL.Path being path
CallNext(path) == [next |-> TRUE, path |-> path, response |-> NothingServed]

\* the handler wrote the response and returned
Answer(written) == [next |-> FALSE, path |-> <<>>, response |-> written]

----------------------------------------------------------------------------
(* net/http.FileServer(http.Dir(DirectoryPath)): the static file handler *)

\* toHTTPError of an Open that failed
OpenError(node) ==
    IF node.kind = "noPermission" THEN Error("403 Forbidden", StatusForbidden)
    ELSE Error("404 page not found", StatusNotFound)

\* serveFile for a directory: its index.html when that opens, else dirList
serveDirectoryOrIndex(tree, name, index) ==
    IF ~OpenFails(index) /\ ~StatFails(index) /\ ~IsDir(index)
    THEN ServeContent(Join(name, Str_index_html))
    ELSE IF ReaddirFails(Open(tree, name))
    THEN Error("Error reading directory", StatusInternalServerError)
    ELSE ServeListing(name)

\* serveFile(w, r, fs, name, redirect = true), upath being r.URL.Path
serveFile(tree, upath, name, node) ==
    IF HasSuffix(upath, Str_slash \o Str_index_html)
    THEN localRedirect(<<".", "/">>)
    ELSE IF OpenFails(node) THEN OpenError(node)
    ELSE IF StatFails(node)
    THEN Error("500 Internal Server Error", StatusInternalServerError)
    ELSE IF IsDir(node) /\ upath[Len(upath)] # "/"
    THEN localRedirect(Base(upath) \o Str_slash)
    ELSE IF ~IsDir(node) /\ upath[Len(upath)] = "/"
    THEN localRedirect(<<".", ".", "/">> \o Base(upath))
    ELSE IF IsDir(node)
    THEN serveDirectoryOrIndex(tree, name, Open(tree, Join(name, Str_index_html)))
    ELSE ServeContent(name)

\* fileHandler.ServeHTTP, with the path made to start with a slash
fileServerRooted(tree, upath) ==
    Answer(serveFile(tree, upath, Clean(upath), Open(tree, Clean(upath))))

\* request.URL.Path once fileHandler.ServeHTTP has run: a path without
\* leading slash is given one in the request itself
fileServerRequestAfter(path) == IF HasPrefix(path, Str_slash) THEN path ELSE Str_slash \o path

fileServerServeHTTP(tree, path) ==
    fileServerRooted(tree, IF HasPrefix(path, Str_slash) THEN path ELSE Str_slash \o path)

----------------------------------------------------------------------------
(* unnamed/part_014: initialFileHandler *)

initialFileRootRequestPath == Str_slash

ReplaceBackslashes(text) == [i \in 1..Len(text) |-> IF text[i] = "\\" THEN "/" ELSE text[i]]

\* the initialRequestPath newInitialFileHandler computes
initialRequestPath(initialFileRelativePath) ==
    Clean(Join(initialFileRootRequestPath, ReplaceBackslashes(initialFileRelativePath)))

\* an initial-file handler that rewrites every path
initialFileRewritesAll(initialFileRelativePath, path) ==
    CallNext(initialRequestPath(initialFileRelativePath))

\* request.URL.Path of the request the handler was called with, once it has
\* returned: the path is rewritten on a clone with a copy of the URL
initialFileRequestAfter(initialFileRelativePath, path) == path

initialFileServeHTTP(initialFileRelativePath, path) ==
    IF path # initialFileRootRequestPath
    THEN CallNext(path)
    ELSE CallNext(initialRequestPath(initialFileRelativePath))

----------------------------------------------------------------------------
(* internal/server/markdown_handler.go *)

directoryIndexCandidates == <<Str_index_html, Str_index_htm>>

isMarkdownFile(fileName) == EqualFold(Ext(fileName), <<".", "m", "d">>)

\* one candidate of directoryIndexExists: it opens, its Stat succeeds, it is no directory
indexCandidateExists(candidate) ==
    ~OpenFails(candidate) /\ ~StatFails(candidate) /\ ~IsDir(candidate)

\* a directoryIndexExists that looks for index.html alone
directoryIndexHtmlExists(tree, directoryPath) ==
    indexCandidateExists(Open(tree, Join(directoryPath, Str_index_html)))

directoryIndexExists(tree, directoryPath) ==
    \E index \in 1..Len(directoryIndexCandidates) :
        indexCandidateExists(Open(tree, Join(directoryPath, directoryIndexCandidates[index])))

NoCandidate == [err |-> FALSE, path |-> <<>>]
CandidateError == [err |-> TRUE, path |-> <<>>]

\* the loop of selectMarkdownCandidate from entries[index] on, and what follows it
RECURSIVE scanMarkdownEntries(_, _, _, _)
\* a scan that takes the first Markdown file, whatever it is called
scanTakesFirstMarkdown(directoryPath, entries, index, markdownEntries) ==
    IF index > Len(entries)
    THEN NoCandidate
    ELSE IF IsDirKind(entries[index].kind) \/ ~isMarkdownFile(entries[index].name)
    THEN scanMarkdownEntries(directoryPath, entries, index + 1, markdownEntries)
    ELSE [err |-> FALSE, path |-> Join(directoryPath, entries[index].name)]

scanMarkdownEntries(directoryPath, entries, index, markdownEntries) ==
    IF index > Len(entries)
    THEN IF Len(markdownEntries) = 1
         THEN [err |-> FALSE, path |-> Join(directoryPath, markdownEntries[1].name)]
         ELSE NoCandidate
    ELSE IF IsDirKind(entries[index].kind) \/ ~isMarkdownFile(entries[index].name)
    THEN scanMarkdownEntries(directoryPath, entries, index + 1, markdownEntries)
    ELSE IF EqualFold(entries[index].name, Str_README_md)
    THEN [err |-> FALSE, path |-> Join(directoryPath, entries[index].name)]
    ELSE scanMarkdownEntries(directoryPath, entries, index + 1,
                             Append(markdownEntries, entries[index]))

selectMarkdownCandidate(tree, directoryPath) ==
    IF OpenFails(Open(tree, directoryPath)) THEN CandidateError
    ELSE IF ReaddirFails(Open(tree, directoryPath)) THEN CandidateError
    ELSE scanMarkdownEntries(directoryPath, Readdir(tree, directoryPath), 1, <<>>)

\* io.ReadAll and markdown.ToHTML succeed on a file that opened
serveMarkdownFile(tree, path, markdownPath) ==
    IF OpenFails(Open(tree, markdownPath))
    THEN CallNext(path)
    ELSE Answer(ServeRendered(Clean(markdownPath)))

\* a serveDirectory that never refuses: without candidate it calls the next handler
serveCandidateListingEnabled(tree, path, disableDirectoryListing, candidate) ==
    IF ~candidate.err /\ candidate.path # <<>>
    THEN serveMarkdownFile(tree, path, candidate.path)
    ELSE CallNext(path)

\* serveDirectory from the selection of the candidate on
serveCandidate(tree, path, disableDirectoryListing, candidate) ==
    IF ~candidate.err /\ candidate.path # <<>>
    THEN serveMarkdownFile(tree, path, candidate.path)
    ELSE IF disableDirectoryListing
    THEN Answer(Error(errorMessageDirectoryListingDisabled, StatusForbidden))
    ELSE CallNext(path)

\* a serveDirectory that refuses the listing before it looks for a candidate
serveDirectoryGuardFirst(tree, path, disableDirectoryListing, enableDirectoryMarkdown) ==
    IF ~HasSuffix(path, Str_slash) THEN CallNext(path)
    ELSE IF disableDirectoryListing
    THEN Answer(Error(errorMessageDirectoryListingDisabled, StatusForbidden))
    ELSE IF ~enableDirectoryMarkdown THEN CallNext(path)
    ELSE IF directoryIndexExists(tree, path) THEN CallNext(path)
    ELSE serveCandidate(tree, path, disableDirectoryListing,
                        selectMarkdownCandidate(tree, path))

serveDirectory(tree, path, disableDirectoryListing, enableDirectoryMarkdown) ==
    IF ~HasSuffix(path, Str_slash) THEN CallNext(path)
    ELSE IF ~enableDirectoryMarkdown THEN CallNext(path)
    ELSE IF directoryIndexExists(tree, path) THEN CallNext(path)
    ELSE serveCandidate(tree, path, disableDirectoryListing,
                        selectMarkdownCandidate(tree, path))

\* markdownHandler.ServeHTTP, with the file at request.URL.Path opened
markdownServeOpened(tree, path, node, disableDirectoryListing, enableDirectoryMarkdown) ==
    IF OpenFails(node) THEN CallNext(path)
    ELSE IF StatFails(node) THEN CallNext(path)
    ELSE IF IsDir(node)
    THEN serveDirectory(tree, path, disableDirectoryListing, enableDirectoryMarkdown)
    ELSE IF ~isMarkdownFile(node.name) THEN CallNext(path)
    ELSE serveMarkdownFile(tree, path, path)

markdownServeHTTP(tree, path, disableDirectoryListing, enableDirectoryMarkdown) ==
    markdownServeOpened(tree, path, Open(tree, path),
                        disableDirectoryListing, enableDirectoryMarkdown)

\* a guard that refuses the root of the served directory alone
directoryGuardRootOnly(path) ==
    IF path = Str_slash
    THEN Answer(Error(errorMessageDirectoryListingDisabled, StatusForbidden))
    ELSE CallNext(path)

\* the handler of newDirectoryGuardHandler
directoryGuardServeHTTP(path) ==
    IF HasSuffix(path, Str_slash)
    THEN Answer(Error(errorMessageDirectoryListingDisabled, StatusForbidden))
    ELSE CallNext(path)

----------------------------------------------------------------------------
(* unnamed/part_013: browseHandler *)

\* serveDirectFileRequest, with the file at request.URL.Path opened
directFileOpened(node) ==
    /\ ~OpenFails(node)
    /\ ~StatFails(node)
    /\ ~IsDir(node)
    /\ ~isMarkdownFile(node.name)

\* a serveDirectFileRequest that serves Markdown files as they are
serveDirectFileRequestAnyFile(tree, path) ==
    /\ ~(path = <<>> \/ HasSuffix(path, Str_slash))
    /\ ~OpenFails(Open(tree, path))
    /\ ~StatFails(Open(tree, path))
    /\ ~IsDir(Open(tree, path))

\* a serveDirectFileRequest that leaves index.html to the next handler
serveDirectFileRequestNotIndex(tree, path) ==
    /\ ~(path = <<>> \/ HasSuffix(path, Str_slash))
    /\ directFileOpened(Open(tree, path))
    /\ Base(path) # Str_index_html

\* TRUE when the file was served
serveDirectFileRequest(tree, path) ==
    /\ ~(path = <<>> \/ HasSuffix(path, Str_slash))
    /\ directFileOpened(Open(tree, path))

\* browseHandler.ServeHTTP after serveDirectFileRequest returned false
browseDirectory(tree, path, node) ==
    IF ~HasSuffix(path, Str_slash) \/ path = <<>> THEN CallNext(path)
    ELSE IF OpenFails(node) THEN CallNext(path)
    ELSE IF StatFails(node) \/ ~IsDir(node) THEN CallNext(path)
    ELSE IF ReaddirFails(node) THEN CallNext(path)
    ELSE Answer(ServeListing(Clean(path)))

\* a browse handler that leaves a directory with an index.html to the next handler
browseUnlessIndex(tree, path) ==
    IF serveDirectFileRequest(tree, path)
    THEN Answer(ServeContent(Clean(path)))
    ELSE IF directoryIndexHtmlExists(tree, Str_slash \o path)
    THEN CallNext(path)
    ELSE browseDirectory(tree, path, Open(tree, path))

browseServeHTTP(tree, path) ==
    IF serveDirectFileRequest(tree, path)
    THEN Answer(ServeContent(Clean(path)))
    ELSE browseDirectory(tree, path, Open(tree, path))

----------------------------------------------------------------------------
(* internal/server/file_server.go: FileServer.buildFileHandler *)

\* a chain with the initial-file handler under the Markdown handler and the guard
buildInitialFileInnermost(c) ==
    (IF c.BrowseDirectories THEN <<"browse">> ELSE <<>>)
    \o (IF c.EnableMarkdown THEN <<"markdown">>
        ELSE IF c.DisableDirectoryListing /\ ~c.BrowseDirectories
        THEN <<"directoryGuard">> ELSE <<>>)
    \o (IF c.InitialFileRelativePath # <<>> /\ ~c.BrowseDirectories
        THEN <<"initialFile">> ELSE <<>>)
    \o <<"fileServer">>

\* the handlers in the order a request goes through them: each wrapping made
\* later is further out
buildFileHandler(c) ==
    (IF c.InitialFileRelativePath # <<>> /\ ~c.BrowseDirectories
     THEN <<"initialFile">> ELSE <<>>)
    \o (IF c.BrowseDirectories THEN <<"browse">> ELSE <<>>)
    \o (IF c.EnableMarkdown THEN <<"markdown">>
        ELSE IF c.DisableDirectoryListing /\ ~c.BrowseDirectories
        THEN <<"directoryGuard">> ELSE <<>>)
    \o <<"fileServer">>

NoConfiguration ==
    [DisableDirectoryListing |-> FALSE, EnableMarkdown |-> FALSE,
     BrowseDirectories |-> FALSE, InitialFileRelativePath |-> <<>>]

\* the file chain of a server that has not been handed a request
FileServerIdle ==
    /\ stage = 0
    /\ urlPath = <<>>
    /\ receivedURLPath = <<>>
    /\ visited = <<>>
    /\ served = NothingServed

\* the state of the file chain in the specifications that do not use it
FileServerUnused ==
    /\ configuration = NoConfiguration
    /\ fileSystem = [root |-> <<>>, sub |-> <<>>]
    /\ handlers = buildFileHandler(NoConfiguration)
    /\ FileServerIdle

----------------------------------------------------------------------------
(* internal/server/file_server.go: statusRecorder and FileServer.wrapWithLogging *)

\* the requests served at the same time
LoggedRequests == {"r1", "r2"}

NoRecorder == [made |-> FALSE, statusCode |-> 0, bytesWritten |-> 0]

\* the statusRecorder newStatusRecorder returns
newRecorder == [made |-> TRUE, statusCode |-> StatusOK, bytesWritten |-> 0]

\* statusRecorder.WriteHeader
recorderWriteHeader(recorder, statusCode) == [recorder EXCEPT !.statusCode = statusCode]

\* statusRecorder.Write, the embedded writer having accepted written bytes
recorderWrite(recorder, written) ==
    [recorder EXCEPT !.bytesWritten = recorder.bytesWritten + written]

\* one recorder for the whole process
recordedWriterShared(requestId) == "r1"

\* the recorder the handler of a request writes to and the log line of the
\* request reads: recordedWriter, a local of the request's call of the wrapper
recordedWriter(requestId) == requestId

NotStarted == [phase |-> "notStarted", statusCode |-> 0, bytesWritten |-> 0]
Serving    == [phase |-> "serving", statusCode |-> 0, bytesWritten |-> 0]

LoggingUnused ==
    /\ recorders = [r \in LoggedRequests |-> NoRecorder]
    /\ writerCalls = [r \in LoggedRequests |-> <<>>]
    /\ logged = [r \in LoggedRequests |-> NotStarted]

----------------------------------------------------------------------------
(* internal/server/file_server.go: FileServer.Serve *)

NotReturned == [returned |-> FALSE, err |-> ""]

\* the errors ListenAndServe returns: the port is bound by another socket,
\* another failure of the listener, or http.ErrServerClosed after Shutdown
ListenErrors == {"EADDRINUSE", "other", "ErrServerClosed"}

isAddressInUse(err) == err = "EADDRINUSE"

\* a Serve that reports every failure of the listener alike
serveErrorReturnedPlain(serveErr) ==
    IF serveErr # "ErrServerClosed"
    THEN [returned |-> TRUE, err |-> "serve http"]
    ELSE [returned |-> TRUE, err |-> ""]

\* what Serve returns in the case serveErr := <-serverErrors
serveErrorReturned(serveErr) ==
    IF serveErr # "ErrServerClosed"
    THEN IF isAddressInUse(serveErr)
         THEN [returned |-> TRUE, err |-> "address in use"]
         ELSE [returned |-> TRUE, err |-> "serve http"]
    ELSE [returned |-> TRUE, err |-> ""]

\* what Serve returns in the case <-ctx.Done(), shutdownErr being what
\* server.Shutdown returned
shutdownReturned(shutdownFailed) ==
    IF shutdownFailed
    THEN [returned |-> TRUE, err |-> "shutdown server"]
    ELSE [returned |-> TRUE, err |-> ""]

ServeUnused ==
    /\ servePc = "unused"
    /\ ctxDone = FALSE
    /\ listener = "none"
    /\ serverErrors = <<>>
    /\ inFlight = {}
    /\ serveReturn = NotReturned

\* no request is being dispatched
DispatchUnused == dispatches = <<>>

\* no bytes are held in a buffered reader
BuffersUnused == clientBuffer = <<>> /\ backendReader = <<>>

----------------------------------------------------------------------------
(* net/http/httputil.NewSingleHostReverseProxy, as proxyHandler uses it *)

singleJoiningSlash(a, b) ==
    LET aslash == HasSuffix(a, <<"/">>)
        bslash == HasPrefix(b, <<"/">>)
    IN IF aslash /\ bslash THEN a \o Tail(b)
       ELSE IF ~aslash /\ ~bslash THEN a \o <<"/">> \o b
       ELSE a \o b

\* a Director that sends the target's query in place of the request's
rewriteRequestURLTargetQuery(req, target) ==
    [Method    |-> req.Method,
     URLScheme |-> target.Scheme,
     URLHost   |-> target.Host,
     Path      |-> singleJoiningSlash(target.Path, req.Path),
     RawQuery  |-> target.RawQuery,
     Body      |-> req.Body,
     Host      |-> req.Host]

\* the Director of NewSingleHostReverseProxy(target): the request URL gets the
\* target's scheme and host, the target's path is put before the request's,
\* the queries are joined; the Host header field is left as the client sent it
rewriteRequestURL(req, target) ==
    [Method    |-> req.Method,
     URLScheme |-> target.Scheme,
     URLHost   |-> target.Host,
     Path      |-> singleJoiningSlash(target.Path, req.Path),
     RawQuery  |-> IF target.RawQuery = <<>> \/ req.RawQuery = <<>>
                   THEN target.RawQuery \o req.RawQuery
                   ELSE target.RawQuery \o <<"&">> \o req.RawQuery,
     Body      |-> req.Body,
     Host      |-> req.Host]

\* header fields ReverseProxy removes from the backend's response
hopHeaders == {"Connection", "Proxy-Connection", "Keep-Alive", "Proxy-Authenticate",
               "Proxy-Authorization", "Te", "Trailer", "Transfer-Encoding", "Upgrade"}

\* responses a backend can give to a forwarded request
BackendResponsePool ==
    { [status |-> st, headers |-> hs, body |-> <<"backend response">>, complete |-> TRUE] :
        st \in {StatusOK, StatusNotFound},
        hs \in {{"X-Backend"}, {"X-Backend", "Keep-Alive"}} }

\* an ErrorHandler answering with another status
InternalErrorForBackend ==
    [status |-> StatusInternalServerError, headers |-> {}, body |-> <<"Bad Gateway: ">>, complete |-> TRUE]

\* the ErrorHandler newProxyRouteHandler installs
BadGatewayResponse ==
    [status |-> StatusBadGateway, headers |-> {}, body |-> <<"Bad Gateway: ">>, complete |-> TRUE]

----------------------------------------------------------------------------
(* internal/server/proxy_handler.go: the dispatcher *)

\* the header test without the lower-casing
isWebSocketUpgradeCaseSensitive(req) ==
    /\ Contains(HeaderGet(req.Header, headerConnection), valueUpgrade)
    /\ HeaderGet(req.Header, headerUpgrade) = valueWebSocket

isWebSocketUpgrade(req) ==
    LET connectionHeader == ToLower(HeaderGet(req.Header, headerConnection))
        upgradeHeader    == ToLower(HeaderGet(req.Header, headerUpgrade))
    IN Contains(connectionHeader, valueUpgrade) /\ upgradeHeader = valueWebSocket

\* the routes of the handler newProxyHandler made: those of the table, in
\* the table's order
HandlerRoutes == built.routes

MatchedRoute == HandlerRoutes[matchResult]

\* proxyHandler.ServeHTTP up to the call it delegates to. A request arrives
\* on some ResponseWriter; no match: handler.next serves it
ServeHTTP ==
    /\ pc = "idle"
    /\ \E req \in RequestPool, nextStatus \in {StatusOK, StatusNotFound} :
        LET routeIndex == matchRoute(HandlerRoutes, req.Path) IN
        /\ request' = req
        /\ writer' = "unused"
        /\ (nextStatus = StatusOK \/ routeIndex = 0)
        /\ matchPath' = req.Path
        /\ matchResult' = routeIndex
        /\ IF routeIndex = 0
           THEN /\ handledBy' = "next"
                /\ nextRequest' = req
                /\ response' = [status |-> nextStatus, headers |-> {},
                                body |-> <<"static">>, complete |-> TRUE]
                /\ pc' = "done"
           ELSE /\ handledBy' = IF isWebSocketUpgrade(req) THEN "webSocket" ELSE "httpProxy"
                /\ nextRequest' = NoRequest
                /\ response' = NoResponse
                /\ pc' = IF isWebSocketUpgrade(req) THEN "dial" ELSE "httpProxy"
    /\ UNCHANGED <<fileVars, logVars, serveVars, dispatchVars, bufferVars, serveProxies, legacyPathPrefix, legacyBackendURL, routeMappings, built, failedBefore, outRequest, backendResponse, contacted>>
    /\ UNCHANGED tunnelVars

\* routeHandler.httpProxy.ServeHTTP: the backend cannot be reached (the
\* ErrorHandler answers), or it responds and the response is copied to the
\* client, or it responds and the copy of the body fails part-way
ReverseProxyServeHTTP ==
    /\ pc = "httpProxy"
    /\ \E outcome \in {"unreachable", "responds", "bodyFails"}, res \in BackendResponsePool :
        /\ contacted' = contacted \cup {MatchedRoute.backendURL.Host}
        /\ IF outcome = "unreachable"
           THEN /\ response' = BadGatewayResponse
                /\ failedBefore' = TRUE
                /\ UNCHANGED <<outRequest, backendResponse>>
           ELSE /\ outRequest' = rewriteRequestURL(request, MatchedRoute.backendURL)
                /\ backendResponse' = res
                /\ response' = [status   |-> res.status,
                                headers  |-> res.headers \ hopHeaders,
                                body     |-> IF outcome = "responds" THEN res.body ELSE <<>>,
                                complete |-> outcome = "responds"]
                /\ failedBefore' = (failedBefore \/ outcome = "bodyFails")
    /\ pc' = "done"
    /\ UNCHANGED <<fileVars, logVars, serveVars, dispatchVars, bufferVars, serveProxies, legacyPathPrefix, legacyBackendURL, routeMappings, built, matchPath, matchResult, request, writer,
                   handledBy, nextRequest>>
    /\ UNCHANGED tunnelVars

----------------------------------------------------------------------------
(* internal/server/proxy_handler.go: proxyRouteHandler.handleWebSocket *)

RequestFrame == <<fileVars, logVars, serveVars, dispatchVars, bufferVars, serveProxies, legacyPathPrefix, legacyBackendURL, routeMappings, built, matchPath, matchResult, request, writer,
                  handledBy, nextRequest, outRequest>>

useTLS(route) == EqualFold(route.backendURL.Scheme, proxySchemeHTTPS)

\* http.Header.Set: the field has the one value, whatever it had
HeaderSet(header, key, value) ==
    [k \in DOMAIN header \cup {key} |-> IF k = key THEN <<value>> ELSE header[k]]

\* cloneHeaders: a new map with, for every field, a new slice of its values
cloneHeaders(src) ==
    [key \in DOMAIN src |-> [i \in 1..Len(src[key]) |-> src[key][i]]]

\* the header of the upgrade request: the clone with Connection, Upgrade and
\* Host set. headerUpgrade, the name "Upgrade", is the value of Connection
upgradeHeader(req, route) ==
    HeaderSet(HeaderSet(HeaderSet(cloneHeaders(req.Header),
                                  headerConnection, Str_Upgrade),
                        headerUpgrade, valueWebSocket),
              headerHost, route.backendURL.Host)

\* the upgrade request built from the client's request for the route's backend
upgradeRequest(req, route) ==
    [Method     |-> req.Method,
     URL        |-> [Scheme   |-> IF useTLS(route) THEN <<"w","s","s">> ELSE <<"w","s">>,
                     Host     |-> route.backendURL.Host,
                     Path     |-> req.Path,
                     RawQuery |-> req.RawQuery],
     Proto      |-> req.Proto,
     ProtoMajor |-> req.ProtoMajor,
     ProtoMinor |-> req.ProtoMinor,
     Header     |-> upgradeHeader(req, route),
     Host       |-> route.backendURL.Host]

\* an upgrade request whose Header is the map of the client's request
originalHeaderShared(req, route) == upgradeHeader(req, route)

\* request.Header once the upgrade request is built: the three Set calls
\* wrote to the clone
originalHeaderAfterBuild(req, route) == req.Header

InternalServerErrorResponse ==
    [status |-> StatusInternalServerError, headers |-> {}, body |-> <<"hijack">>, complete |-> TRUE]

\* a return without the deferred Close calls
ReturnWithoutClose ==
    /\ pc' = "done"
    /\ UNCHANGED <<backendConn, clientConn>>

\* a return that runs only the Close deferred on the client connection
ReturnClosingClientOnly ==
    /\ pc' = "done"
    /\ clientConn' = IF clientConn = "open" THEN "closed" ELSE clientConn
    /\ UNCHANGED backendConn

\* the handler returns: the deferred Close calls run on the connections it holds
ReturnFromTunnel ==
    /\ pc' = "done"
    /\ backendConn' = IF backendConn = "open" THEN "closed" ELSE backendConn
    /\ clientConn' = IF clientConn = "open" THEN "closed" ELSE clientConn

\* what dialing the route's backend can return: tls.DialWithDialer for an
\* https backend, net.DialTimeout otherwise
DialResults(route) ==
    {"nil", "connect failed"} \cup
    (IF useTLS(route) THEN {"tls handshake failed"} ELSE {})

\* a test that takes only a failed connect for a failed dial
dialFailedToConnect(err) == err = "connect failed"

\* if dialErr != nil
dialFailed(err) == err # "nil"

\* the dial, and the 502 when it fails
DialBackend ==
    /\ pc = "dial"
    /\ contacted' = contacted \cup {MatchedRoute.backendURL.Host}
    /\ \E err \in DialResults(MatchedRoute) :
        /\ dialErr' = err
        /\ IF dialFailed(err)
           THEN /\ response' = BadGatewayResponse
                /\ failedBefore' = TRUE
                /\ pc' = "done"
                /\ UNCHANGED backendConn
           ELSE /\ backendConn' = "open"
                /\ pc' = "hijack"
                /\ UNCHANGED <<response, failedBefore>>
    /\ UNCHANGED RequestFrame
    /\ UNCHANGED <<backendResponse, clientConn, hijackCalled, upgradeSent, c2b, b2c,
                   completionSignals, clientSent, backendSent, clientStream,
                   backendStream, backendIn, clientIn, clientEOF, backendEOF>>

\* the type assertion's result ignored
supportsHijackerUnchecked(w) == TRUE

\* hijacker, supportsHijacker := responseWriter.(http.Hijacker): the writer
\* has a Hijack method. A *statusRecorder has the methods of the embedded
\* http.ResponseWriter interface (Header, Write, WriteHeader) and its own
\* WriteHeader and Write, whatever the writer it wraps has besides
supportsHijacker(w) == w \in {"hijackFails", "hijackable"}

\* the Hijacker type assertion and hijacker.Hijack(), with their 500s
HijackClient ==
    /\ pc = "hijack"
    /\ \E w \in WriterKinds :
        /\ writer' = w
        /\ IF ~supportsHijacker(w)
           THEN /\ response' = InternalServerErrorResponse
                /\ UNCHANGED hijackCalled
                /\ ReturnFromTunnel
           ELSE IF w = "hijackFails"
           THEN /\ hijackCalled' = TRUE
                /\ response' = InternalServerErrorResponse
                /\ ReturnFromTunnel
           ELSE /\ hijackCalled' = TRUE
                /\ clientConn' = "open"
                /\ pc' = "writeUpgrade"
                /\ UNCHANGED <<response, backendConn>>
    /\ UNCHANGED <<fileVars, logVars, serveVars, dispatchVars, bufferVars, serveProxies, legacyPathPrefix, legacyBackendURL, routeMappings, built, matchPath, matchResult, request,
                   handledBy, nextRequest, outRequest>>
    /\ UNCHANGED <<dialErr, backendResponse, contacted, failedBefore, upgradeSent, c2b, b2c,
                   completionSignals, clientSent, backendSent, clientStream,
                   backendStream, backendIn, clientIn, clientEOF, backendEOF>>

\* a failed write of the upgrade request answered by dialing again
WriteUpgradeRequestOrRedial ==
    /\ pc = "writeUpgrade"
    /\ \E err \in {"nil", "write failed"} :
        IF err # "nil"
        THEN /\ pc' = "dial"
             /\ backendConn' = "closed"
             /\ UNCHANGED <<upgradeSent, clientConn>>
        ELSE /\ upgradeSent' = upgradeRequest(request, MatchedRoute)
             /\ pc' = "readResponse"
             /\ UNCHANGED <<backendConn, clientConn>>
    /\ UNCHANGED RequestFrame
    /\ UNCHANGED <<dialErr, backendResponse, response, contacted, failedBefore, hijackCalled, c2b, b2c,
                   completionSignals, clientSent, backendSent, clientStream,
                   backendStream, backendIn, clientIn, clientEOF, backendEOF>>

\* the upgrade request is built, then upgradeRequest.Write(backendConnection)
WriteUpgradeRequest ==
    /\ pc = "writeUpgrade"
    /\ request' = [request EXCEPT !.Header = originalHeaderAfterBuild(request, MatchedRoute)]
    /\ \E err \in {"nil", "write failed"} :
        IF err # "nil"
        THEN /\ ReturnFromTunnel
             /\ UNCHANGED upgradeSent
        ELSE /\ upgradeSent' = upgradeRequest(request, MatchedRoute)
             /\ pc' = "readResponse"
             /\ UNCHANGED <<backendConn, clientConn>>
    /\ UNCHANGED <<fileVars, logVars, serveVars, dispatchVars, bufferVars, serveProxies, legacyPathPrefix,
                   legacyBackendURL, routeMappings, built, matchPath, matchResult, writer,
                   handledBy, nextRequest, outRequest>>
    /\ UNCHANGED <<dialErr, backendResponse, response, contacted, failedBefore, hijackCalled, c2b, b2c,
                   completionSignals, clientSent, backendSent, clientStream,
                   backendStream, backendIn, clientIn, clientEOF, backendEOF>>

\* statuses a backend answers an upgrade request with
HandshakeStatuses == {StatusSwitchingProtocols, StatusOK, StatusNotFound}

\* a response that cannot be parsed answered with a 502
ReadBackendResponseOrBadGateway ==
    /\ pc = "readResponse"
    /\ \E readErr \in {"nil", "malformed response"}, st \in HandshakeStatuses :
        IF readErr # "nil"
        THEN /\ ReturnFromTunnel
             /\ response' = BadGatewayResponse
             /\ UNCHANGED backendResponse
        ELSE /\ backendResponse' = [status |-> st, headers |-> {"Upgrade", "Connection"},
                                    body |-> <<>>, complete |-> TRUE]
             /\ pc' = "relayResponse"
             /\ UNCHANGED <<response, backendConn, clientConn>>
    /\ UNCHANGED RequestFrame
    /\ UNCHANGED <<dialErr, contacted, failedBefore, hijackCalled, upgradeSent, c2b, b2c,
                   completionSignals, clientSent, backendSent, clientStream,
                   backendStream, backendIn, clientIn, clientEOF, backendEOF>>

\* http.ReadResponse(backendReader, upgradeRequest)
ReadBackendResponse ==
    /\ pc = "readResponse"
    /\ \E readErr \in {"nil", "malformed response"}, st \in HandshakeStatuses :
        IF readErr # "nil"
        THEN /\ ReturnFromTunnel
             /\ UNCHANGED backendResponse
        ELSE /\ backendResponse' = [status |-> st, headers |-> {"Upgrade", "Connection"},
                                    body |-> <<>>, complete |-> TRUE]
             /\ pc' = "relayResponse"
             /\ UNCHANGED <<backendConn, clientConn>>
    /\ UNCHANGED RequestFrame
    /\ UNCHANGED <<dialErr, response, contacted, failedBefore, hijackCalled, upgradeSent, c2b, b2c,
                   completionSignals, clientSent, backendSent, clientStream,
                   backendStream, backendIn, clientIn, clientEOF, backendEOF>>

\* what reached the client of a response whose Write failed: nothing, or its
\* beginning
PartialWrites(res) ==
    {NoResponse, [status |-> res.status, headers |-> {}, body |-> <<>>, complete |-> FALSE]}

\* a handler that relays only a 101 and drops the tunnel on any other status
RelayOnlySwitchingProtocols ==
    /\ pc = "relayResponse"
    /\ \E err \in {"nil", "write failed"} :
        IF backendResponse.status # StatusSwitchingProtocols
        THEN /\ ReturnFromTunnel
             /\ UNCHANGED response
        ELSE IF err # "nil"
        THEN /\ ReturnFromTunnel
             /\ response' \in PartialWrites(backendResponse)
        ELSE /\ response' = backendResponse
             /\ pc' = "startRelay"
             /\ UNCHANGED <<backendConn, clientConn>>
    /\ UNCHANGED RequestFrame
    /\ UNCHANGED <<dialErr, backendResponse, contacted, failedBefore, hijackCalled, upgradeSent, c2b, b2c,
                   completionSignals, clientSent, backendSent, clientStream,
                   backendStream, backendIn, clientIn, clientEOF, backendEOF>>

\* backendResponse.Write(clientConnection)
RelayBackendResponse ==
    /\ pc = "relayResponse"
    /\ \E err \in {"nil", "write failed"} :
        IF err # "nil"
        THEN /\ ReturnFromTunnel
             /\ response' \in PartialWrites(backendResponse)
        ELSE /\ response' = backendResponse
             /\ pc' = "startRelay"
             /\ UNCHANGED <<backendConn, clientConn>>
    /\ UNCHANGED RequestFrame
    /\ UNCHANGED <<dialErr, backendResponse, contacted, failedBefore, hijackCalled, upgradeSent, c2b, b2c,
                   completionSignals, clientSent, backendSent, clientStream,
                   backendStream, backendIn, clientIn, clientEOF, backendEOF>>

\* the two go statements placed before backendResponse.Write
StartRelayBeforeResponseWrite ==
    /\ pc \in {"relayResponse", "startRelay"}
    /\ c2b' = "copying"
    /\ b2c' = "copying"
    /\ pc' = "wait"
    /\ UNCHANGED RequestFrame
    /\ UNCHANGED <<dialErr, backendResponse, response, contacted, failedBefore,
                   backendConn, clientConn, hijackCalled, upgradeSent,
                   completionSignals, clientSent, backendSent, clientStream,
                   backendStream, backendIn, clientIn, clientEOF, backendEOF>>

\* the two go statements
StartRelay ==
    /\ pc = "startRelay"
    /\ c2b' = "copying"
    /\ b2c' = "copying"
    /\ pc' = "wait"
    /\ UNCHANGED RequestFrame
    /\ UNCHANGED <<dialErr, backendResponse, response, contacted, failedBefore,
                   backendConn, clientConn, hijackCalled, upgradeSent,
                   completionSignals, clientSent, backendSent, clientStream,
                   backendStream, backendIn, clientIn, clientEOF, backendEOF>>

\* a handler that waits for both goroutines
ReceiveBothCompletions ==
    /\ pc = "wait"
    /\ completionSignals = 2
    /\ completionSignals' = 0
    /\ ReturnFromTunnel
    /\ UNCHANGED RequestFrame
    /\ UNCHANGED <<dialErr, backendResponse, response, contacted, failedBefore, hijackCalled,
                   upgradeSent, c2b, b2c, clientSent, backendSent, clientStream,
                   backendStream, backendIn, clientIn, clientEOF, backendEOF>>

\* <-completionSignals, and the return that follows it
ReceiveCompletion ==
    /\ pc = "wait"
    /\ completionSignals > 0
    /\ completionSignals' = completionSignals - 1
    /\ ReturnFromTunnel
    /\ UNCHANGED RequestFrame
    /\ UNCHANGED <<dialErr, backendResponse, response, contacted, failedBefore, hijackCalled,
                   upgradeSent, c2b, b2c, clientSent, backendSent, clientStream,
                   backendStream, backendIn, clientIn, clientEOF, backendEOF>>

----------------------------------------------------------------------------
(* The relay goroutines: copyWithBuffer in each direction, then the send   *)
(* on completionSignals.                                                   *)

copyBufferSize == 32768
completionSignalsCapacity == 2

HandlerFrame == <<pc, dialErr, backendResponse, response, contacted, failedBefore,
                  backendConn, clientConn, hijackCalled, upgradeSent>>

\* a copy that loses the first byte of every chunk it read
CopyClientToBackendOffByOne ==
    /\ c2b = "copying"
    /\ clientConn = "open" /\ backendConn = "open"
    /\ clientStream # <<>>
    /\ \E n \in 1..Len(clientStream) :
        /\ n <= copyBufferSize
        /\ backendIn' = backendIn \o SubSeq(clientStream, 2, n)
        /\ clientStream' = SubSeq(clientStream, n + 1, Len(clientStream))
    /\ UNCHANGED RequestFrame
    /\ UNCHANGED HandlerFrame
    /\ UNCHANGED <<c2b, b2c, completionSignals, clientSent, backendSent,
                   backendStream, clientIn, clientEOF, backendEOF>>

\* one Read from clientBuffer and the Write of what it returned to
\* backendConnection
CopyClientToBackend ==
    /\ c2b = "copying"
    /\ clientConn = "open" /\ backendConn = "open"
    /\ clientStream # <<>>
    /\ \E n \in 1..Len(clientStream) :
        /\ n <= copyBufferSize
        /\ backendIn' = backendIn \o SubSeq(clientStream, 1, n)
        /\ clientStream' = SubSeq(clientStream, n + 1, Len(clientStream))
    /\ UNCHANGED RequestFrame
    /\ UNCHANGED HandlerFrame
    /\ UNCHANGED <<c2b, b2c, completionSignals, clientSent, backendSent,
                   backendStream, clientIn, clientEOF, backendEOF>>

\* io.CopyBuffer returns: end of the client's stream, or a Read or Write on a
\* closed connection
ClientToBackendEnds ==
    /\ c2b = "copying"
    /\ \/ clientConn = "closed"
       \/ backendConn = "closed"
       \/ clientEOF /\ clientStream = <<>>
       \/ backendEOF /\ clientStream # <<>>
    /\ c2b' = "signal"
    /\ UNCHANGED RequestFrame
    /\ UNCHANGED HandlerFrame
    /\ UNCHANGED <<b2c, completionSignals, clientSent, backendSent, clientStream,
                   backendStream, backendIn, clientIn, clientEOF, backendEOF>>

\* completionSignals <- struct{}{} in the client -> backend goroutine
ClientToBackendSignals ==
    /\ c2b = "signal"
    /\ completionSignals < completionSignalsCapacity
    /\ completionSignals' = completionSignals + 1
    /\ c2b' = "done"
    /\ UNCHANGED RequestFrame
    /\ UNCHANGED HandlerFrame
    /\ UNCHANGED <<b2c, clientSent, backendSent, clientStream,
                   backendStream, backendIn, clientIn, clientEOF, backendEOF>>

\* one Read from backendReader and the Write of what it returned to
\* clientConnection
CopyBackendToClient ==
    /\ b2c = "copying"
    /\ clientConn = "open" /\ backendConn = "open"
    /\ backendStream # <<>>
    /\ \E n \in 1..Len(backendStream) :
        /\ n <= copyBufferSize
        /\ clientIn' = clientIn \o SubSeq(backendStream, 1, n)
        /\ backendStream' = SubSeq(backendStream, n + 1, Len(backendStream))
    /\ UNCHANGED RequestFrame
    /\ UNCHANGED HandlerFrame
    /\ UNCHANGED <<c2b, b2c, completionSignals, clientSent, backendSent,
                   clientStream, backendIn, clientEOF, backendEOF>>

BackendToClientEnds ==
    /\ b2c = "copying"
    /\ \/ clientConn = "closed"
       \/ backendConn = "closed"
       \/ backendEOF /\ backendStream = <<>>
       \/ clientEOF /\ backendStream # <<>>
    /\ b2c' = "signal"
    /\ UNCHANGED RequestFrame
    /\ UNCHANGED HandlerFrame
    /\ UNCHANGED <<c2b, completionSignals, clientSent, backendSent, clientStream,
                   backendStream, backendIn, clientIn, clientEOF, backendEOF>>

\* completionSignals <- struct{}{} in the backend -> client goroutine
BackendToClientSignals ==
    /\ b2c = "signal"
    /\ completionSignals < completionSignalsCapacity
    /\ completionSignals' = completionSignals + 1
    /\ b2c' = "done"
    /\ UNCHANGED RequestFrame
    /\ UNCHANGED HandlerFrame
    /\ UNCHANGED <<c2b, clientSent, backendSent, clientStream,
                   backendStream, backendIn, clientIn, clientEOF, backendEOF>>

----------------------------------------------------------------------------
(* The peers of a tunnel: the client and the backend write bytes and close *)
(* their ends. The k-th byte a peer writes is the number k.                *)

InTunnel == handledBy = "webSocket" /\ pc \notin {"idle", "dial", "done"}

ClientWrites ==
    /\ InTunnel
    /\ ~clientEOF
    /\ clientSent < MaxBytes
    /\ clientSent' = clientSent + 1
    /\ clientStream' = Append(clientStream, clientSent + 1)
    /\ UNCHANGED RequestFrame
    /\ UNCHANGED HandlerFrame
    /\ UNCHANGED <<c2b, b2c, completionSignals, backendSent,
                   backendStream, backendIn, clientIn, clientEOF, backendEOF>>

\* the backend writes after the response it gave to the upgrade request
BackendWrites ==
    /\ InTunnel
    /\ backendResponse # NoResponse
    /\ ~backendEOF
    /\ backendSent < MaxBytes
    /\ backendSent' = backendSent + 1
    /\ backendStream' = Append(backendStream, backendSent + 1)
    /\ UNCHANGED RequestFrame
    /\ UNCHANGED HandlerFrame
    /\ UNCHANGED <<c2b, b2c, completionSignals, clientSent,
                   clientStream, backendIn, clientIn, clientEOF, backendEOF>>

ClientCloses ==
    /\ pc = "wait"
    /\ ~clientEOF
    /\ clientEOF' = TRUE
    /\ UNCHANGED RequestFrame
    /\ UNCHANGED HandlerFrame
    /\ UNCHANGED <<c2b, b2c, completionSignals, clientSent, backendSent, clientStream,
                   backendStream, backendIn, clientIn, backendEOF>>

BackendCloses ==
    /\ pc = "wait"
    /\ ~backendEOF
    /\ backendEOF' = TRUE
    /\ UNCHANGED RequestFrame
    /\ UNCHANGED HandlerFrame
    /\ UNCHANGED <<c2b, b2c, completionSignals, clientSent, backendSent, clientStream,
                   backendStream, backendIn, clientIn, clientEOF>>

----------------------------------------------------------------------------
(* The serving specification: a handler made by newProxyHandler from a     *)
(* route table, serving requests. Tunnels share no state, so one request   *)
(* is followed at a time; the next one arrives once the goroutines of the  *)
(* previous tunnel have ended.                                             *)

\* the route tables served: nested prefixes given shortest first, to an http
\* and an https backend; and a backend URL with a base path and a query
NestedMappings ==
    << Str_api \o Str_eq \o Str_httpH,
       Str_api \o Str_internal \o Str_eq \o Str_httpsH >>

BasePathMappings ==
    << Str_api \o Str_eq \o Str_httpG \o <<"/","v","1","?","k","=","v">> >>

ServeMappingLists == {NestedMappings, BasePathMappings}

\* the server goes on to its next request: what the handler and the tunnel
\* held for the finished one is gone
AwaitRequest ==
    /\ pc = "done"
    /\ c2b \in {"none", "done"}
    /\ b2c \in {"none", "done"}
    /\ pc' = "idle"
    /\ request' = NoRequest
    /\ writer' = "unused"
    /\ handledBy' = "none"
    /\ nextRequest' = NoRequest
    /\ outRequest' = NoOutRequest
    /\ backendResponse' = NoResponse
    /\ response' = NoResponse
    /\ contacted' = {}
    /\ matchPath' = NoPath
    /\ matchResult' = 0
    /\ ResetTunnel
    /\ UNCHANGED <<fileVars, logVars, serveVars, dispatchVars, bufferVars, serveProxies, legacyPathPrefix, legacyBackendURL, routeMappings, built, failedBefore>>

Init ==
    /\ serveProxies = <<>>
    /\ legacyPathPrefix = <<>>
    /\ legacyBackendURL = <<>>
    /\ routeMappings \in ServeMappingLists
    /\ built = NewProxyRoutes(routeMappings)
    /\ matchPath = NoPath
    /\ matchResult = 0
    /\ RequestInit
    /\ FileServerUnused
    /\ LoggingUnused
    /\ ServeUnused
    /\ DispatchUnused
    /\ BuffersUnused

Next ==
    \/ AwaitRequest
    \/ ServeHTTP
    \/ ReverseProxyServeHTTP
    \/ DialBackend
    \/ HijackClient
    \/ WriteUpgradeRequest
    \/ ReadBackendResponse
    \/ RelayBackendResponse
    \/ StartRelay
    \/ ReceiveCompletion
    \/ CopyClientToBackend
    \/ ClientToBackendEnds
    \/ ClientToBackendSignals
    \/ CopyBackendToClient
    \/ BackendToClientEnds
    \/ BackendToClientSignals
    \/ ClientWrites
    \/ BackendWrites
    \/ ClientCloses
    \/ BackendCloses

Spec == Init /\ [][Next]_vars

\* The Go scheduler runs every goroutine that can take a step: the handler's
\* goroutine and the two relay goroutines. Nothing is assumed of the peers or
\* of the arrival of requests.
Fairness ==
    /\ WF_vars(ReverseProxyServeHTTP)
    /\ WF_vars(DialBackend)
    /\ WF_vars(HijackClient)
    /\ WF_vars(WriteUpgradeRequest)
    /\ WF_vars(ReadBackendResponse)
    /\ WF_vars(RelayBackendResponse)
    /\ WF_vars(StartRelay)
    /\ WF_vars(ReceiveCompletion)
    /\ WF_vars(CopyClientToBackend)
    /\ WF_vars(ClientToBackendEnds)
    /\ WF_vars(ClientToBackendSignals)
    /\ WF_vars(CopyBackendToClient)
    /\ WF_vars(BackendToClientEnds)
    /\ WF_vars(BackendToClientSignals)

\* a handler serving the table with an http and an https backend
FairInit == Init /\ routeMappings = NestedMappings

FairSpec == FairInit /\ [][Next]_vars /\ Fairness

----------------------------------------------------------------------------
(* The route-table specification: NewProxyRoutes applied to a mapping list *)
(* and matchRoute applied to the table it built.                           *)

RoutesInit ==
    /\ serveProxies = <<>>
    /\ legacyPathPrefix = <<>>
    /\ legacyBackendURL = <<>>
    /\ routeMappings \in SeqsUpTo(MappingPool, MaxMappings)
    /\ built = NotBuilt
    /\ matchPath = NoPath
    /\ matchResult = 0
    /\ RequestInit
    /\ FileServerUnused
    /\ LoggingUnused
    /\ ServeUnused
    /\ DispatchUnused
    /\ BuffersUnused

BuildRoutes ==
    /\ built = NotBuilt
    /\ built' = NewProxyRoutes(routeMappings)
    /\ UNCHANGED <<fileVars, logVars, serveVars, dispatchVars, bufferVars, serveProxies, legacyPathPrefix, legacyBackendURL, routeMappings, matchPath, matchResult>>
    /\ UNCHANGED requestVars
    /\ UNCHANGED tunnelVars

\* proxyHandler.ServeHTTP's first step, on a handler made from the table
MatchRequestPath ==
    /\ built # NotBuilt
    /\ built.err = NoError
    /\ matchPath = NoPath
    /\ \E requestPath \in PathPool :
        /\ matchPath' = requestPath
        /\ matchResult' = matchRoute(built.routes, requestPath)
    /\ UNCHANGED <<fileVars, logVars, serveVars, dispatchVars, bufferVars, serveProxies, legacyPathPrefix, legacyBackendURL, routeMappings, built>>
    /\ UNCHANGED requestVars
    /\ UNCHANGED tunnelVars

RoutesNext == BuildRoutes \/ MatchRequestPath

SpecRoutes == RoutesInit /\ [][RoutesNext]_vars

----------------------------------------------------------------------------
(* The legacy specification: NewProxyRoutesFromLegacy applied to a prefix *)
(* and a backend URL, and matchRoute applied to the table it built.       *)

LegacyInit ==
    /\ serveProxies = <<>>
    /\ legacyPathPrefix \in LegacyPrefixPool
    /\ legacyBackendURL \in LegacyBackendPool
    /\ routeMappings = <<>>
    /\ built = NotBuilt
    /\ matchPath = NoPath
    /\ matchResult = 0
    /\ RequestInit
    /\ FileServerUnused
    /\ LoggingUnused
    /\ ServeUnused
    /\ DispatchUnused
    /\ BuffersUnused

BuildLegacyRoutes ==
    /\ built = NotBuilt
    /\ built' = NewProxyRoutesFromLegacy(legacyPathPrefix, legacyBackendURL)
    /\ UNCHANGED <<fileVars, logVars, serveVars, dispatchVars, bufferVars, serveProxies, legacyPathPrefix, legacyBackendURL, routeMappings, matchPath, matchResult>>
    /\ UNCHANGED requestVars
    /\ UNCHANGED tunnelVars

LegacyNext == BuildLegacyRoutes \/ MatchRequestPath

SpecLegacy == LegacyInit /\ [][LegacyNext]_vars

----------------------------------------------------------------------------
(* The configuration specification: resolveProxyRoutes applied to the three *)
(* configuration values, and matchRoute applied to the table it built.      *)

ResolveInit ==
    /\ serveProxies \in SeqsUpTo(ProxiesPool, MaxProxies)
    /\ legacyPathPrefix \in LegacyPrefixValues
    /\ legacyBackendURL \in LegacyBackendValues
    /\ routeMappings = <<>>
    /\ built = NotBuilt
    /\ matchPath = NoPath
    /\ matchResult = 0
    /\ RequestInit
    /\ FileServerUnused
    /\ LoggingUnused
    /\ ServeUnused
    /\ DispatchUnused
    /\ BuffersUnused

ResolveProxyRoutes ==
    /\ built = NotBuilt
    /\ routeMappings' = normalizeProxyMappings(serveProxies)
    /\ built' = resolveProxyRoutes(serveProxies, legacyBackendURL, legacyPathPrefix)
    /\ UNCHANGED <<fileVars, logVars, serveVars, dispatchVars, bufferVars, serveProxies, legacyPathPrefix, legacyBackendURL, matchPath, matchResult>>
    /\ UNCHANGED requestVars
    /\ UNCHANGED tunnelVars

ResolveNext == ResolveProxyRoutes \/ MatchRequestPath

SpecResolve == ResolveInit /\ [][ResolveNext]_vars

----------------------------------------------------------------------------
(* Specification of the logging wrapper: concurrent requests, each handled
   by a handler that calls WriteHeader and Write on the writer it was given *)

\* the status codes handlers write and the byte counts the server's writer
\* accepts of one Write
WrittenStatusPool == {StatusNotFound, StatusInternalServerError}
WrittenBytesPool == {1, 2}

LoggingInit ==
    /\ LoggingUnused
    /\ FileServerUnused
    /\ ServeUnused
    /\ DispatchUnused
    /\ BuffersUnused
    /\ serveProxies = <<>>
    /\ legacyPathPrefix = <<>>
    /\ legacyBackendURL = <<>>
    /\ routeMappings = <<>>
    /\ built = NotBuilt
    /\ matchPath = NoPath
    /\ matchResult = 0
    /\ RequestInit

LoggingFrame == <<fileVars, serveVars, dispatchVars, bufferVars, routeVars, requestVars, tunnelVars>>

\* the wrapper is called with a request: recordedWriter := newStatusRecorder(responseWriter)
WrapWithLogging(r) ==
    /\ logged[r] = NotStarted
    /\ recorders' = [recorders EXCEPT ![recordedWriter(r)] = newRecorder]
    /\ logged' = [logged EXCEPT ![r] = Serving]
    /\ UNCHANGED <<writerCalls, LoggingFrame>>

\* the handler calls recordedWriter.WriteHeader(statusCode)
HandlerWriteHeader(r, statusCode) ==
    /\ logged[r] = Serving
    /\ Len(writerCalls[r]) < MaxCalls
    /\ recorders' = [recorders EXCEPT
          ![recordedWriter(r)] = recorderWriteHeader(recorders[recordedWriter(r)], statusCode)]
    /\ writerCalls' = [writerCalls EXCEPT
          ![r] = Append(writerCalls[r],
                        [call |-> "WriteHeader", statusCode |-> statusCode, written |-> 0])]
    /\ UNCHANGED <<logged, LoggingFrame>>

\* the handler calls recordedWriter.Write(content); the server's writer
\* accepts written bytes of it
HandlerWrite(r, written) ==
    /\ logged[r] = Serving
    /\ Len(writerCalls[r]) < MaxCalls
    /\ recorders' = [recorders EXCEPT
          ![recordedWriter(r)] = recorderWrite(recorders[recordedWriter(r)], written)]
    /\ writerCalls' = [writerCalls EXCEPT
          ![r] = Append(writerCalls[r],
                        [call |-> "Write", statusCode |-> 0, written |-> written])]
    /\ UNCHANGED <<logged, LoggingFrame>>

\* the handler returned: the wrapper logs recordedWriter.statusCode and
\* recordedWriter.bytesWritten
LogRequestCompleted(r) ==
    /\ logged[r] = Serving
    /\ logged' = [logged EXCEPT ![r] =
          [phase |-> "logged",
           statusCode |-> recorders[recordedWriter(r)].statusCode,
           bytesWritten |-> recorders[recordedWriter(r)].bytesWritten]]
    /\ UNCHANGED <<recorders, writerCalls, LoggingFrame>>

LoggingNext ==
    \E r \in LoggedRequests :
        \/ WrapWithLogging(r)
        \/ \E statusCode \in WrittenStatusPool : HandlerWriteHeader(r, statusCode)
        \/ \E written \in WrittenBytesPool : HandlerWrite(r, written)
        \/ LogRequestCompleted(r)

SpecLogging == LoggingInit /\ [][LoggingNext]_vars

----------------------------------------------------------------------------
(* Specification of FileServer.Serve: one call of Serve, the goroutine
   of ListenAndServe, the context and the requests the server handles *)

\* the requests clients send while the server listens
ServedRequests == {"a", "b", "c", "d"}

ServeInit ==
    /\ servePc = "start"
    /\ ctxDone \in BOOLEAN
    /\ listener = "none"
    /\ serverErrors = <<>>
    /\ inFlight = {}
    /\ serveReturn = NotReturned
    /\ DispatchUnused
    /\ BuffersUnused
    /\ LoggingUnused
    /\ FileServerUnused
    /\ serveProxies = <<>>
    /\ legacyPathPrefix = <<>>
    /\ legacyBackendURL = <<>>
    /\ routeMappings = <<>>
    /\ built = NotBuilt
    /\ matchPath = NoPath
    /\ matchResult = 0
    /\ RequestInit

ServeFrame == <<fileVars, logVars, dispatchVars, bufferVars, routeVars, requestVars, tunnelVars>>

\* Serve returns before it serves: no logging service, a logging type that
\* does not normalize, or a TLS configuration that does not load
ServeRejectsConfiguration ==
    /\ servePc = "start"
    /\ servePc' = "returned"
    /\ \E reason \in {"logging service not configured", "normalize logging type",
                      "configure tls"} :
           serveReturn' = [returned |-> TRUE, err |-> reason]
    /\ UNCHANGED <<ctxDone, listener, serverErrors, inFlight, ServeFrame>>

\* Serve starts the goroutine of ListenAndServe and waits in the select
ServeStarts ==
    /\ servePc = "start"
    /\ servePc' = "serving"
    /\ listener' = "starting"
    /\ UNCHANGED <<ctxDone, serverErrors, inFlight, serveReturn, ServeFrame>>

\* ListenAndServe has bound the port and accepts connections
ListenSucceeds ==
    /\ listener = "starting"
    /\ listener' = "listening"
    /\ UNCHANGED <<servePc, ctxDone, serverErrors, inFlight, serveReturn, ServeFrame>>

\* ListenAndServe returns an error, which the goroutine sends on serverErrors:
\* the port is in use when it tries to bind, or the listener fails later
ListenFails ==
    /\ \/ listener = "starting" /\ \E err \in {"EADDRINUSE", "other"} :
                                       serverErrors' = Append(serverErrors, err)
       \/ listener = "listening" /\ serverErrors' = Append(serverErrors, "other")
    /\ listener' = "failed"
    /\ UNCHANGED <<servePc, ctxDone, inFlight, serveReturn, ServeFrame>>

\* the caller cancels the context
CancelContext ==
    /\ ~ctxDone
    /\ servePc # "returned"
    /\ ctxDone' = TRUE
    /\ UNCHANGED <<servePc, listener, serverErrors, inFlight, serveReturn, ServeFrame>>

\* the server accepts a request
AcceptRequest ==
    /\ listener = "listening"
    /\ Cardinality(inFlight) < MaxInFlight
    /\ \E r \in ServedRequests \ inFlight : inFlight' = inFlight \cup {r}
    /\ UNCHANGED <<servePc, ctxDone, listener, serverErrors, serveReturn, ServeFrame>>

\* a request has been answered
CompleteRequest ==
    /\ \E r \in inFlight : inFlight' = inFlight \ {r}
    /\ UNCHANGED <<servePc, ctxDone, listener, serverErrors, serveReturn, ServeFrame>>

\* the select takes <-ctx.Done(): server.Shutdown is called with a context
\* that ends after shutdownGracePeriod; it closes the listener, which makes
\* ListenAndServe return http.ErrServerClosed
SelectContextDone ==
    /\ servePc = "serving"
    /\ ctxDone
    /\ servePc' = "shuttingDown"
    /\ IF listener \in {"starting", "listening"}
       THEN /\ listener' = "closed"
            /\ serverErrors' = Append(serverErrors, "ErrServerClosed")
       ELSE UNCHANGED <<listener, serverErrors>>
    /\ UNCHANGED <<ctxDone, inFlight, serveReturn, ServeFrame>>

\* the select takes serveErr := <-serverErrors
SelectServerError ==
    /\ servePc = "serving"
    /\ serverErrors # <<>>
    /\ serverErrors' = Tail(serverErrors)
    /\ servePc' = "returned"
    /\ serveReturn' = serveErrorReturned(Head(serverErrors))
    /\ UNCHANGED <<ctxDone, listener, inFlight, ServeFrame>>

\* server.Shutdown returns nil: no request is being handled any more
ShutdownCompleted ==
    /\ servePc = "shuttingDown"
    /\ inFlight = {}
    /\ servePc' = "returned"
    /\ serveReturn' = shutdownReturned(FALSE)
    /\ UNCHANGED <<ctxDone, listener, serverErrors, inFlight, ServeFrame>>

\* the grace period ends with requests still being handled: server.Shutdown
\* returns the error of its context
ShutdownGraceExpired ==
    /\ servePc = "shuttingDown"
    /\ inFlight # {}
    /\ servePc' = "returned"
    /\ serveReturn' = shutdownReturned(TRUE)
    /\ UNCHANGED <<ctxDone, listener, serverErrors, inFlight, ServeFrame>>

ServeNext ==
    \/ ServeRejectsConfiguration
    \/ ServeStarts
    \/ ListenSucceeds
    \/ ListenFails
    \/ CancelContext
    \/ AcceptRequest
    \/ CompleteRequest
    \/ SelectContextDone
    \/ SelectServerError
    \/ ShutdownCompleted
    \/ ShutdownGraceExpired

SpecServe == ServeInit /\ [][ServeNext]_vars

\* the select proceeds when one of its cases is ready, Shutdown returns when
\* the requests are done, and the timer of the grace period fires
FairSpecServe ==
    /\ SpecServe
    /\ WF_vars(SelectContextDone \/ SelectServerError)
    /\ WF_vars(ShutdownCompleted)
    /\ WF_vars(ShutdownGraceExpired)

----------------------------------------------------------------------------
(* The file-chain specification: buildFileHandler applied to a configuration, *)
(* and one request going through the handlers it composed.                    *)

ConfigurationPool ==
    [DisableDirectoryListing : BOOLEAN, EnableMarkdown : BOOLEAN,
     BrowseDirectories : BOOLEAN,
     InitialFileRelativePath : {<<>>, Str_notes_md, Str_sub \o <<"\\">> \o Str_README_md}]

Tree(rootEntries, subEntries) == [root |-> rootEntries, sub |-> subEntries]

\* served trees: with and without an index, a README, other Markdown files,
\* directories named like files, a subdirectory, and names that fail to open,
\* to stat or to list
FileSystemPool ==
    { Tree(<<>>, <<>>),
      Tree(<<File(Str_index_html), File(Str_README_md)>>, <<>>),
      Tree(<<File(Str_index_htm), File(Str_README_md), File(Str_a_txt)>>, <<>>),
      Tree(<<File(Str_notes_md), File(Str_ReadMe_MD), File(Str_guide_MD)>>, <<>>),
      Tree(<<File(Str_a_txt), File(Str_notes_md)>>, <<>>),
      Tree(<<File(Str_notes_md), File(Str_guide_MD), Dir(Str_sub)>>, <<File(Str_README_md)>>),
      Tree(<<File(Str_a_txt), Dir(Str_sub)>>, <<File(Str_index_html), File(Str_notes_md)>>),
      Tree(<<Dir(Str_index_html), Dir(Str_README_md), File(Str_guide_MD)>>, <<>>),
      Tree(<<[name |-> Str_sub, kind |-> "dirReadFails"],
             [name |-> Str_locked, kind |-> "noPermission"],
             [name |-> Str_broken, kind |-> "statFails"]>>, <<>>),
      Tree(<<File(Str_README_md), File(Str_ReadMe_MD)>>, <<>>),
      Tree(<<File(Str_ReadMe_MD), File(Str_README_md)>>, <<>>),
      Tree(<<Dir(Str_sub), File(Str_index_html)>>,
           <<File(Str_index_htm), File(Str_ReadMe_MD), File(Str_notes_md)>>)
    }

FilePathPool ==
    { <<>>,
      Str_slash,
      Str_slash \o Str_index_html,
      Str_slash \o Str_index_htm,
      Str_slash \o Str_README_md,
      Str_slash \o Str_README_md \o Str_slash,
      Str_slash \o Str_notes_md,
      Str_slash \o Str_guide_MD,
      Str_slash \o Str_a_txt,
      Str_slash \o Str_a_txt \o Str_slash,
      Str_slash \o Str_sub,
      Str_slash \o Str_sub \o Str_slash,
      Str_slash \o Str_sub \o Str_slash \o Str_README_md,
      Str_slash \o Str_sub \o Str_slash \o Str_index_html,
      Str_slash \o Str_locked,
      Str_slash \o Str_broken,
      Str_slash \o Str_broken \o Str_slash,
      <<"/", "m", "i", "s", "s", "i", "n", "g", "/">>
    }

FilesInit ==
    /\ configuration \in ConfigurationPool
    /\ fileSystem \in FileSystemPool
    /\ handlers = buildFileHandler(configuration)
    /\ FileServerIdle
    /\ LoggingUnused
    /\ ServeUnused
    /\ DispatchUnused
    /\ BuffersUnused
    /\ serveProxies = <<>>
    /\ legacyPathPrefix = <<>>
    /\ legacyBackendURL = <<>>
    /\ routeMappings = <<>>
    /\ built = NotBuilt
    /\ matchPath = NoPath
    /\ matchResult = 0
    /\ RequestInit

\* the server hands a request to the outermost handler
ReceiveFileRequest ==
    /\ stage = 0
    /\ visited = <<>>
    /\ \E path \in FilePathPool : urlPath' = path /\ receivedURLPath' = path
    /\ stage' = 1
    /\ UNCHANGED <<configuration, fileSystem, handlers, visited, served>>
    /\ UNCHANGED <<logVars, serveVars, dispatchVars, bufferVars, routeVars, requestVars, tunnelVars>>

\* the handler at this stage has run: it called the next one or it answered
Handled(handlerName, outcome) ==
    /\ stage # 0
    /\ handlers[stage] = handlerName
    /\ visited' = Append(visited, [handler |-> handlerName, path |-> urlPath])
    /\ IF outcome.next
       THEN stage' = stage + 1 /\ urlPath' = outcome.path /\ served' = served
       ELSE stage' = 0 /\ urlPath' = urlPath /\ served' = outcome.response
    /\ UNCHANGED <<configuration, fileSystem, handlers>>
    /\ UNCHANGED <<logVars, serveVars, dispatchVars, bufferVars, routeVars, requestVars, tunnelVars>>

InitialFileServeHTTP ==
    /\ Handled("initialFile",
               initialFileServeHTTP(configuration.InitialFileRelativePath, urlPath))
    /\ receivedURLPath' =
          initialFileRequestAfter(configuration.InitialFileRelativePath, receivedURLPath)

BrowseServeHTTP ==
    /\ Handled("browse", browseServeHTTP(fileSystem, urlPath))
    /\ UNCHANGED receivedURLPath

MarkdownServeHTTP ==
    /\ Handled("markdown",
               markdownServeHTTP(fileSystem, urlPath, configuration.DisableDirectoryListing,
                                 ~configuration.BrowseDirectories))
    /\ UNCHANGED receivedURLPath

DirectoryGuardServeHTTP ==
    /\ Handled("directoryGuard", directoryGuardServeHTTP(urlPath))
    /\ UNCHANGED receivedURLPath

\* the request the static handler holds is the one the server handed over,
\* unless the initial-file handler passed a clone of it on
FileServerServeHTTP ==
    /\ Handled("fileServer", fileServerServeHTTP(fileSystem, urlPath))
    /\ receivedURLPath' =
          IF \E i \in 1..Len(visited) :
                 visited[i].handler = "initialFile" /\ visited[i].path = initialFileRootRequestPath
          THEN receivedURLPath
          ELSE fileServerRequestAfter(urlPath)

FilesNext ==
    \/ ReceiveFileRequest
    \/ InitialFileServeHTTP
    \/ BrowseServeHTTP
    \/ MarkdownServeHTTP
    \/ DirectoryGuardServeHTTP
    \/ FileServerServeHTTP

SpecFiles == FilesInit /\ [][FilesNext]_vars

----------------------------------------------------------------------------
(* Properties of the route table (checked under SpecRoutes) *)

\* the routes the mappings given to NewProxyRoutes stand for, in input order
InputRoutes == [i \in 1..Len(routeMappings) |-> parseProxyMapping(routeMappings[i]).route]

TableBuilt == built # NotBuilt /\ built.err = NoError

Path_apiInternalX == Str_api \o Str_internal \o <<"/","x">>
Path_apiOther     == Str_api \o <<"/","o","t","h","e","r">>
Path_apiextra     == Str_api \o <<"e","x","t","r","a">>
Path_static       == <<"/","s","t","a","t","i","c">>

InputHasPrefix(prefix) == \E i \in 1..Len(routeMappings) : InputRoutes[i].pathPrefix = prefix

\* C1: the dispatcher selects, for every table NewProxyRoutes built and every
\* request path, the route of the longest given prefix that is a literal prefix
\* of the path, and none when no given prefix is; with /api and /api/internal
\* given in either order, /api/internal/x goes to /api/internal, /api/other to
\* /api, and /apiextra is matched by /api.
C1_LongestLiteralPrefix ==
    (TableBuilt /\ matchPath # NoPath) =>
        LET candidates == {i \in 1..Len(routeMappings) :
                              HasPrefix(matchPath, InputRoutes[i].pathPrefix)}
        IN /\ (candidates = {}) <=> (matchResult = 0)
           /\ matchResult # 0 =>
                /\ \E i \in candidates : built.routes[matchResult] = InputRoutes[i]
                /\ \A i \in candidates :
                      Len(InputRoutes[i].pathPrefix) <= Len(built.routes[matchResult].pathPrefix)
           /\ (InputHasPrefix(Str_api) /\ InputHasPrefix(Str_api \o Str_internal)) =>
                /\ matchPath = Path_apiInternalX =>
                      built.routes[matchResult].pathPrefix = Str_api \o Str_internal
                /\ matchPath \in {Path_apiOther, Path_apiextra} =>
                      built.routes[matchResult].pathPrefix = Str_api

\* C1 witness: /api given before /api/internal, and /api/internal/x matched to
\* the /api/internal route
C1_Witness ==
    /\ TableBuilt
    /\ Len(routeMappings) = 2
    /\ InputRoutes[1].pathPrefix = Str_api
    /\ InputRoutes[2].pathPrefix = Str_api \o Str_internal
    /\ matchPath = Path_apiInternalX
    /\ matchResult # 0
    /\ built.routes[matchResult].pathPrefix = Str_api \o Str_internal

\* the position in the input of the mapping a route of the table came from
InputPosition(route) == CHOOSE i \in 1..Len(routeMappings) : InputRoutes[i] = route

\* C2: the routes NewProxyRoutes returns are the given ones, non-increasing by
\* prefix length, and routes with prefixes of equal length are in the order in
\* which they were given.
C2_StableDescendingLength ==
    TableBuilt =>
        /\ Len(built.routes) = Len(routeMappings)
        /\ \A i \in 1..Len(built.routes) :
              \E k \in 1..Len(routeMappings) : InputRoutes[k] = built.routes[i]
        /\ \A i, j \in 1..Len(built.routes) :
              i < j =>
                /\ Len(built.routes[i].pathPrefix) >= Len(built.routes[j].pathPrefix)
                /\ Len(built.routes[i].pathPrefix) = Len(built.routes[j].pathPrefix) =>
                      InputPosition(built.routes[i]) < InputPosition(built.routes[j])

\* C2 witness: two prefixes of equal length given before a longer one; the
\* table has the longer one first and the two others in the order given
C2_Witness ==
    /\ TableBuilt
    /\ Len(routeMappings) = 3
    /\ InputRoutes[1].pathPrefix = Str_app
    /\ InputRoutes[2].pathPrefix = Str_api
    /\ InputRoutes[3].pathPrefix = Str_api \o Str_internal
    /\ built.routes[1].pathPrefix = Str_api \o Str_internal
    /\ built.routes[2].pathPrefix = Str_app
    /\ built.routes[3].pathPrefix = Str_api

----------------------------------------------------------------------------
(* Properties of the dispatcher and the reverse proxy (checked under Spec) *)

Dispatched == pc # "idle" /\ request # NoRequest

RouteMatches == \E i \in 1..Len(HandlerRoutes) : HasPrefix(request.Path, HandlerRoutes[i].pathPrefix)

\* the value of a header field as its first line gives it
FirstLine(lines) == IF Len(lines) = 0 THEN <<>> ELSE lines[1]

HasSubstringFold(s, sub) ==
    LET lower == ToLower(s)
    IN \E i \in 1..(Len(s) - Len(sub) + 1) :
          \A k \in 1..Len(sub) : lower[i + k - 1] = LowerChar(sub[k])

\* the elements of a comma-separated list, trimmed
RECURSIVE ListElements(_)
ListElements(s) ==
    LET comma == Index(s, <<",">>)
    IN IF comma = 0 THEN {TrimSpace(s)}
       ELSE {TrimSpace(SubSeq(s, 1, comma - 1))}
            \cup ListElements(SubSeq(s, comma + 1, Len(s)))

\* the tokens of a header field: the list elements of all of its lines
HeaderTokens(lines) == UNION {ListElements(lines[i]) : i \in 1..Len(lines)}

HasTokenFold(lines, token) == \E t \in HeaderTokens(lines) : EqualFold(t, token)

\* C3 as stated: a request matching a route goes to the tunnel exactly when
\* its Connection header has the token upgrade and its Upgrade header is
\* websocket, both compared case-insensitively, and to the reverse proxy
\* otherwise.
C3_TunnelIffUpgradeToken ==
    (Dispatched /\ RouteMatches) =>
        /\ handledBy \in {"webSocket", "httpProxy"}
        /\ (handledBy = "webSocket") <=>
              /\ HasTokenFold(request.Header.Connection, valueUpgrade)
              /\ EqualFold(FirstLine(request.Header.Upgrade), valueWebSocket)

\* C3 amended: a request matching a route goes to the tunnel exactly when the
\* first line of its Connection header has upgrade as a substring and the
\* first line of its Upgrade header is websocket, both compared
\* case-insensitively, and to the reverse proxy otherwise.
C3_TunnelIffUpgradeSubstring ==
    (Dispatched /\ RouteMatches) =>
        /\ handledBy \in {"webSocket", "httpProxy"}
        /\ (handledBy = "webSocket") <=>
              /\ HasSubstringFold(FirstLine(request.Header.Connection), valueUpgrade)
              /\ EqualFold(FirstLine(request.Header.Upgrade), valueWebSocket)

\* C3 witness: Connection: keep-alive, Upgrade with Upgrade: WebSocket on a
\* path under /api is in the tunnel
C3_Witness ==
    /\ handledBy = "webSocket"
    /\ pc = "dial"
    /\ request.Header.Connection = <<Str_keepalive \o <<",", " ">> \o Str_Upgrade>>
    /\ request.Header.Upgrade = <<Str_WebSocket>>

\* C4: a request whose path no route prefix is a literal prefix of is handed
\* to the next handler as it came, and no backend is dialed or sent anything
\* for it.
C4_NoMatchFallsBack ==
    (Dispatched /\ ~RouteMatches) =>
        /\ handledBy = "next"
        /\ nextRequest = request
        /\ contacted = {}
        /\ dialErr = "-"
        /\ backendConn = "none"
        /\ outRequest = NoOutRequest
        /\ upgradeSent = NoUpgradeRequest

\* C4 witness: an upgrade request for /static served by the next handler
C4_Witness ==
    /\ pc = "done"
    /\ handledBy = "next"
    /\ request.Path = Path_static
    /\ request.Header.Upgrade = <<valueWebSocket>>
    /\ nextRequest = request
    /\ response.status = StatusOK
    /\ Len(HandlerRoutes) = 2

\* the reverse proxy got a response from the backend
BackendResponded == pc = "done" /\ handledBy = "httpProxy" /\ outRequest # NoOutRequest

\* C5 as stated: a non-upgrade request matching a route reaches the route's
\* backend with its method, path, query string and body as sent and the
\* backend's host, and the client gets the backend's status, headers and body
\* unmodified.
C5_ForwardedUnmodified ==
    (BackendResponded /\ response.complete) =>
        /\ outRequest.Method = request.Method
        /\ outRequest.Path = request.Path
        /\ outRequest.RawQuery = request.RawQuery
        /\ outRequest.Body = request.Body
        /\ outRequest.URLHost = MatchedRoute.backendURL.Host
        /\ response.status = backendResponse.status
        /\ response.headers = backendResponse.headers
        /\ response.body = backendResponse.body

\* C5 amended: a non-upgrade request matching a route reaches the route's
\* backend (its scheme and host; the Host header stays the client's) with its
\* method and body as sent, its path after the backend URL's path and its
\* query after the backend URL's query, both as sent when the backend URL has
\* neither; the client gets the backend's status, its headers other than the
\* hop-by-hop ones, and its body.
C5_ForwardedThroughReverseProxy ==
    BackendResponded =>
        LET target == MatchedRoute.backendURL IN
        /\ ~isWebSocketUpgrade(request)
        /\ outRequest.Method = request.Method
        /\ outRequest.Body = request.Body
        /\ outRequest.URLScheme = target.Scheme
        /\ outRequest.URLHost = target.Host
        /\ outRequest.Host = request.Host
        /\ HasPrefix(outRequest.Path, target.Path)
        /\ HasSuffix(outRequest.Path, request.Path)
        /\ Len(outRequest.Path) <= Len(target.Path) + Len(request.Path) + 1
        /\ target.Path = <<>> => outRequest.Path = request.Path
        /\ HasPrefix(outRequest.RawQuery, target.RawQuery)
        /\ HasSuffix(outRequest.RawQuery, request.RawQuery)
        /\ target.RawQuery = <<>> => outRequest.RawQuery = request.RawQuery
        /\ response.status = backendResponse.status
        /\ response.headers = backendResponse.headers \ hopHeaders
        /\ response.complete => response.body = backendResponse.body

\* C5 witness: a POST with a query and a body forwarded to a backend URL
\* without a path, answered 200 with the backend's header and body
C5_Witness ==
    /\ BackendResponded
    /\ request.Method = "POST"
    /\ MatchedRoute.backendURL.Path = <<>>
    /\ outRequest.Path = Path_apiInternalX
    /\ outRequest.RawQuery = <<"q","=","1">>
    /\ outRequest.Body = <<"d","a","t","a">>
    /\ response.complete
    /\ response.status = StatusOK
    /\ "X-Backend" \in response.headers
    /\ "Keep-Alive" \in backendResponse.headers

\* the reverse proxy could not get a response from the backend
BackendFailedBeforeResponse == pc = "done" /\ handledBy = "httpProxy" /\ outRequest = NoOutRequest

\* the copy of the response to the client failed
BackendFailedDuringResponse == BackendResponded /\ ~response.complete

\* a failure does not touch what a request is served with afterwards
OtherRequestsUnaffected ==
    /\ (pc = "idle") => ENABLED ServeHTTP
    /\ (pc = "done" /\ handledBy = "next") =>
          nextRequest = request /\ response.complete /\ response.status # StatusBadGateway
    /\ (BackendResponded /\ response.complete) =>
          response.status = backendResponse.status /\ response.body = backendResponse.body

\* C6 as stated: a non-upgrade request matching a route whose backend is
\* unreachable or fails during proxying is answered 502, and later requests
\* are served normally.
C6_AnyFailureIs502 ==
    /\ (BackendFailedBeforeResponse \/ BackendFailedDuringResponse) =>
          response.status = StatusBadGateway
    /\ OtherRequestsUnaffected

\* C6 amended: a non-upgrade request matching a route whose backend is
\* unreachable or fails before its response has started is answered 502; a
\* failure after that leaves the status the backend gave; either way later
\* requests are served normally.
C6_FailureBeforeResponseIs502 ==
    /\ BackendFailedBeforeResponse =>
          response.status = StatusBadGateway /\ response.complete
    /\ BackendFailedDuringResponse =>
          response.status = backendResponse.status /\ response.status # StatusBadGateway
    /\ OtherRequestsUnaffected

\* C6 witness: after a failed request, a request forwarded and answered 200
C6_Witness ==
    /\ failedBefore
    /\ BackendResponded
    /\ response.complete
    /\ response.status = StatusOK

----------------------------------------------------------------------------
(* Properties of the tunnel (checked under Spec) *)

\* C7: an upgrade request matching a route whose backend cannot be dialed,
\* the connect or the TLS handshake failing, is answered 502, and Hijack is
\* not called: the client connection is not taken over.
C7_DialFailureIs502WithoutHijack ==
    (handledBy = "webSocket" /\ dialErr \in {"connect failed", "tls handshake failed"}) =>
        /\ pc = "done"
        /\ response.status = StatusBadGateway
        /\ ~hijackCalled
        /\ clientConn = "none"
        /\ backendConn = "none"
        /\ upgradeSent = NoUpgradeRequest

\* C7 witness: the TLS handshake with an https backend failed
C7_Witness ==
    /\ handledBy = "webSocket"
    /\ useTLS(MatchedRoute)
    /\ dialErr = "tls handshake failed"
    /\ response.status = StatusBadGateway
    /\ ~hijackCalled

\* C8: a ResponseWriter that is no Hijacker gets a 500 and Hijack is not
\* called; a Hijack that returns an error gets a 500 too, and no upgrade
\* request is written to the backend.
C8_NoTakeoverIs500 ==
    /\ writer = "noHijacker" =>
          /\ pc = "done"
          /\ response.status = StatusInternalServerError
          /\ ~hijackCalled
          /\ clientConn = "none"
          /\ upgradeSent = NoUpgradeRequest
    /\ writer = "hijackFails" =>
          /\ pc = "done"
          /\ response.status = StatusInternalServerError
          /\ hijackCalled
          /\ clientConn = "none"
          /\ upgradeSent = NoUpgradeRequest
          /\ backendIn = <<>>

\* C8 witness: the backend was dialed, Hijack was called and failed
C8_Witness ==
    /\ writer = "hijackFails"
    /\ dialErr = "nil"
    /\ backendConn = "closed"
    /\ hijackCalled
    /\ response.status = StatusInternalServerError

HandshakeDone ==
    /\ upgradeSent = upgradeRequest(request, MatchedRoute)
    /\ backendResponse # NoResponse
    /\ response = backendResponse

RelayStarted == c2b # "none" \/ b2c # "none" \/ backendIn # <<>> \/ clientIn # <<>>

\* C9: in a tunnel the upgrade request is written to the backend, then the
\* backend's response is read, then it is written to the client, and only
\* then do the relay goroutines start: while a handshake step is still to
\* come nothing is relayed, and once something is relayed the handshake is
\* complete.
C9_HandshakeBeforeRelay ==
    /\ pc \in {"dial", "hijack", "writeUpgrade", "readResponse", "relayResponse", "startRelay"} =>
          ~RelayStarted
    /\ RelayStarted => HandshakeDone
    /\ handledBy = "webSocket" =>
          /\ backendResponse # NoResponse => upgradeSent = upgradeRequest(request, MatchedRoute)
          /\ response.complete /\ response.status \in HandshakeStatuses =>
                response = backendResponse
          /\ upgradeSent # NoUpgradeRequest => hijackCalled /\ dialErr = "nil"

\* C9 witness: after a relayed 101 bytes went both ways
C9_Witness ==
    /\ response.status = StatusSwitchingProtocols
    /\ backendIn = <<1>>
    /\ clientIn = <<1>>
    /\ pc = "wait"

\* C10: once the goroutines are started the handler returns when the first
\* of them has sent its completion signal, not before, and without waiting
\* for the other one.
C10_ReturnsOnFirstCompletion ==
    /\ (pc = "wait" /\ (c2b = "done" \/ b2c = "done")) => ENABLED ReceiveCompletion
    /\ (pc = "wait" /\ c2b # "done" /\ b2c # "done") => ~ENABLED ReceiveCompletion
    /\ (pc = "done" /\ RelayStarted) => (c2b = "done" \/ b2c = "done")

\* C10 witness: the handler has returned while the backend -> client
\* goroutine is still copying
C10_Witness ==
    /\ pc = "done"
    /\ c2b = "done"
    /\ b2c = "copying"
    /\ clientConn = "closed"

----------------------------------------------------------------------------
(* Properties of the tunnel's end (C11 under FairSpec) *)

ARelayLoopEnded == c2b \in {"signal", "done"} \/ b2c \in {"signal", "done"}

TunnelReleased ==
    /\ pc = "done"
    /\ clientConn = "closed"
    /\ backendConn = "closed"
    /\ c2b = "done"
    /\ b2c = "done"

\* C11: once one relay loop of a tunnel has ended, the handler returns with
\* both connections closed, and the other loop ends too and both goroutines
\* get their completion signal sent, also after the handler has returned;
\* whenever the handler has returned from relaying both connections are closed.
C11_BothLoopsEndAndConnectionsClose ==
    /\ [](pc = "done" /\ RelayStarted => clientConn = "closed" /\ backendConn = "closed")
    /\ (ARelayLoopEnded ~> TunnelReleased)

\* C11 witness: the handler has returned, and the goroutine that was still
\* copying then has sent its signal too, with no one left to receive it
C11_Witness ==
    /\ TunnelReleased
    /\ completionSignals = 1
    /\ ~clientEOF
    /\ backendEOF

----------------------------------------------------------------------------
(* The tunnel's state machine (C12 under Spec) *)

\* where the tunnel of the current request stands: dialing the backend;
\* taking the client connection over and exchanging the handshake; the relay
\* goroutines running; the handler returned. "None": no tunnel
TunnelState ==
    IF handledBy # "webSocket" THEN "None"
    ELSE IF pc = "dial" THEN "Dialing"
    ELSE IF pc \in {"hijack", "writeUpgrade", "readResponse", "relayResponse", "startRelay"}
    THEN "Handshaking"
    ELSE IF pc = "wait" THEN "Relaying"
    ELSE "Closed"

\* the steps of one tunnel, and the two that begin and follow it: a request
\* handed to handleWebSocket, and the server's next request after the return
TunnelTransitions ==
    { <<"None", "Dialing">>,
      <<"Dialing", "Handshaking">>, <<"Dialing", "Closed">>,
      <<"Handshaking", "Relaying">>, <<"Handshaking", "Closed">>,
      <<"Relaying", "Closed">>,
      <<"Closed", "None">> }

\* C12: a tunnel goes Dialing, Handshaking, Relaying, Closed, or from Dialing
\* or Handshaking straight to Closed; it takes no other step, so it enters no
\* state twice, and from Closed it goes nowhere: what follows Closed is the
\* server's next request, and a tunnel starts in Dialing only.
C12_TunnelStateMachine ==
    [][ /\ TunnelState' # TunnelState => <<TunnelState, TunnelState'>> \in TunnelTransitions
        /\ TunnelState = "Closed" /\ TunnelState' = "None" => pc' = "idle"
        /\ TunnelState = "Dialing" => dialErr = "-" /\ ~hijackCalled
        /\ TunnelState = "Relaying" => c2b # "none" /\ b2c # "none"
      ]_vars

\* C12 witness: a tunnel that relayed after a 101 is closed
C12_Witness ==
    /\ TunnelState = "Closed"
    /\ response.status = StatusSwitchingProtocols
    /\ c2b # "none"
    /\ b2c # "none"
    /\ backendConn = "closed"

----------------------------------------------------------------------------
(* Failures after the takeover (C13 under Spec) *)

\* the tunnel ended after Hijack succeeded and before the goroutines started
FailedAfterTakeover ==
    /\ handledBy = "webSocket"
    /\ pc = "done"
    /\ clientConn # "none"
    /\ c2b = "none" /\ b2c = "none"

UpgradeWriteFailed == FailedAfterTakeover /\ upgradeSent = NoUpgradeRequest

ResponseParseFailed ==
    FailedAfterTakeover /\ upgradeSent # NoUpgradeRequest /\ backendResponse = NoResponse

ResponseRelayFailed == FailedAfterTakeover /\ backendResponse # NoResponse

\* C13: a tunnel that fails after the takeover, in writing the upgrade
\* request, in parsing the backend's response or in writing that response to
\* the client, ends with both connections closed and without a status of the
\* proxy's own: the client got nothing, or the beginning of the backend's
\* response when its relay failed; after a response that did not parse the
\* client got nothing at all.
C13_SilentFailureAfterTakeover ==
    FailedAfterTakeover =>
        /\ UpgradeWriteFailed \/ ResponseParseFailed \/ ResponseRelayFailed
        /\ clientConn = "closed" /\ backendConn = "closed"
        /\ response.status \notin {StatusInternalServerError, StatusBadGateway}
        /\ clientIn = <<>>
        /\ (UpgradeWriteFailed \/ ResponseParseFailed) => response = NoResponse
        /\ ResponseRelayFailed =>
              response \in PartialWrites(backendResponse)

\* C13 witness: the upgrade request was written and the backend's answer did
\* not parse
C13_Witness ==
    /\ ResponseParseFailed
    /\ upgradeSent = upgradeRequest(request, MatchedRoute)
    /\ response = NoResponse
    /\ clientConn = "closed"

----------------------------------------------------------------------------
(* The relay of bytes (C14 under FairSpec) *)

\* the first n bytes a peer writes
BytesWritten(n) == [k \in 1..n |-> k]

BothLoopsRun == pc = "wait" /\ c2b = "copying" /\ b2c = "copying"

\* C14: once the backend's response to the upgrade request is relayed, what
\* the backend got is the beginning of what the client wrote and what the
\* client got is the beginning of what the backend wrote, byte for byte and
\* in order, the rest waiting to be read; and while both relay loops run,
\* bytes that wait are delivered.
C14_BytesRelayedInOrder ==
    /\ [](RelayStarted =>
            /\ response = backendResponse
            /\ backendIn \o clientStream = BytesWritten(clientSent)
            /\ clientIn \o backendStream = BytesWritten(backendSent))
    /\ ((BothLoopsRun /\ clientStream # <<>>) ~> (clientStream = <<>> \/ ~BothLoopsRun))
    /\ ((BothLoopsRun /\ backendStream # <<>>) ~> (backendStream = <<>> \/ ~BothLoopsRun))

\* C14 witness: after a relayed 101 all the bytes of both peers have
\* arrived while both loops run
C14_Witness ==
    /\ BothLoopsRun
    /\ response.status = StatusSwitchingProtocols
    /\ clientSent = MaxBytes /\ backendSent = MaxBytes
    /\ backendIn = BytesWritten(MaxBytes)
    /\ clientIn = BytesWritten(MaxBytes)

----------------------------------------------------------------------------
(* The logging wrapper's writer (C15 under Spec) *)

\* C15: an upgrade request served through a statusRecorder that wraps a
\* writer supporting the takeover is not answered 500: the takeover happens.
C15_RecorderExposesHijacker ==
    (writer = newStatusRecorder("hijackable")) =>
        /\ response.status # StatusInternalServerError
        /\ hijackCalled

----------------------------------------------------------------------------
(* Rejected mappings (C16..C19 under SpecRoutes). A mapping is read here    *)
(* as text: what is before and after its first "=", and in the backend     *)
(* what is before "://" and between "://" and the next "/" or "?".         *)

HasSeparator(m) == \E i \in 1..Len(m) : m[i] = "="

FirstSeparator(m) == CHOOSE i \in 1..Len(m) : m[i] = "=" /\ \A j \in 1..(i - 1) : m[j] # "="

PrefixText(m) == TrimSpace(SubSeq(m, 1, FirstSeparator(m) - 1))

BackendText(m) == TrimSpace(SubSeq(m, FirstSeparator(m) + 1, Len(m)))

SchemeEnd(b) == CHOOSE i \in 1..Len(b) :
                    /\ SubSeq(b, i, i + 2) = <<":", "/", "/">>
                    /\ \A j \in 1..(i - 1) : SubSeq(b, j, j + 2) # <<":", "/", "/">>

SchemeText(b) == SubSeq(b, 1, SchemeEnd(b) - 1)

AfterScheme(b) == SubSeq(b, SchemeEnd(b) + 3, Len(b))

AuthorityText(b) ==
    LET rest == AfterScheme(b)
        ends == {i \in 1..Len(rest) : rest[i] \in {"/", "?"}}
    IN IF ends = {} THEN rest
       ELSE SubSeq(rest, 1, (CHOOSE i \in ends : \A j \in ends : i <= j) - 1)

\* what follows the last colon of the authority is not a number
PortNotNumeric(authority) ==
    \E i \in 1..Len(authority) :
        /\ authority[i] = ":"
        /\ \A j \in (i + 1)..Len(authority) : authority[j] # ":"
        /\ \E j \in (i + 1)..Len(authority) : authority[j] \notin Digits

LacksSeparator(m)     == ~HasSeparator(m)
EmptyPrefix(m)        == HasSeparator(m) /\ PrefixText(m) = <<>>
PrefixWithoutSlash(m) == HasSeparator(m) /\ PrefixText(m) # <<>> /\ Head(PrefixText(m)) # "/"
EmptyBackend(m)       == HasSeparator(m) /\ BackendText(m) = <<>>
HasBackendURL(m)      == HasSeparator(m) /\ BackendText(m) # <<>>
UnparsableBackend(m)  == HasBackendURL(m) /\ PortNotNumeric(AuthorityText(BackendText(m)))
OtherScheme(m)        == HasBackendURL(m)
                         /\ ~EqualFold(SchemeText(BackendText(m)), <<"h","t","t","p">>)
                         /\ ~EqualFold(SchemeText(BackendText(m)), <<"h","t","t","p","s">>)
EmptyHost(m)          == HasBackendURL(m) /\ AuthorityText(BackendText(m)) = <<>>
HostEndsInColon(m)    == HasBackendURL(m) /\ AuthorityText(BackendText(m)) # <<>>
                         /\ AuthorityText(BackendText(m))[Len(AuthorityText(BackendText(m)))] = ":"

InvalidMapping(m) ==
    \/ LacksSeparator(m) \/ EmptyPrefix(m) \/ PrefixWithoutSlash(m) \/ EmptyBackend(m)
    \/ UnparsableBackend(m) \/ OtherScheme(m) \/ EmptyHost(m) \/ HostEndsInColon(m)

\* the classification of the mappings that lists are drawn from
InvalidMappings   == {m \in MappingPool : InvalidMapping(m)}
SeparatedMappings == {m \in MappingPool : HasSeparator(m)}
PrefixTextOf      == [m \in SeparatedMappings |-> PrefixText(m)]

InvalidAt == {i \in 1..Len(routeMappings) : routeMappings[i] \in InvalidMappings}

\* positions of mappings that repeat the prefix of a mapping before them
DuplicateAt ==
    {i \in 1..Len(routeMappings) :
        /\ routeMappings[i] \in SeparatedMappings
        /\ \E k \in 1..(i - 1) :
              /\ routeMappings[k] \in SeparatedMappings
              /\ PrefixTextOf[routeMappings[k]] = PrefixTextOf[routeMappings[i]]}

Built == built # NotBuilt

C17_NoDuplicatePrefixes ==
    /\ (Built /\ InvalidAt = {} /\ DuplicateAt # {}) =>
          built = [err |-> ErrInvalidProxyRoutes, routes |-> <<>>]
    /\ TableBuilt =>
          \A i, j \in 1..Len(built.routes) :
              i # j => built.routes[i].pathPrefix # built.routes[j].pathPrefix

\* C17 witness: /api given twice, once with blanks around it
C17_Witness ==
    /\ Built
    /\ Len(routeMappings) = 2
    /\ InvalidAt = {}
    /\ routeMappings[1] # routeMappings[2]
    /\ PrefixText(routeMappings[1]) = Str_api
    /\ PrefixText(routeMappings[2]) = Str_api
    /\ built.err = ErrInvalidProxyRoutes

\* C18 as stated: a list with an invalid mapping yields ErrInvalidProxyRoute,
\* and ErrInvalidProxyRoutes is returned only when every mapping is valid.
C18_DuplicatesReportedAfterParsing ==
    Built =>
        /\ InvalidAt # {} => built.err = ErrInvalidProxyRoute
        /\ built.err = ErrInvalidProxyRoutes => InvalidAt = {}

\* the first mapping of the list that is invalid or repeats a prefix
FirstOffender ==
    CHOOSE i \in InvalidAt \cup DuplicateAt : \A j \in InvalidAt \cup DuplicateAt : i <= j

\* C18 amended: the mappings are taken in list order, each parsed and then
\* compared with the prefixes before it, and the first that is invalid
\* (ErrInvalidProxyRoute) or repeats a prefix (ErrInvalidProxyRoutes) decides
\* the error; ErrInvalidProxyRoutes is returned only when every mapping up to
\* the repeated prefix is valid.
C18_FirstOffenderDecidesError ==
    Built =>
        /\ (InvalidAt \cup DuplicateAt = {}) <=> (built.err = NoError)
        /\ (InvalidAt \cup DuplicateAt # {}) =>
              /\ built.routes = <<>>
              /\ built.err = IF FirstOffender \in InvalidAt
                             THEN ErrInvalidProxyRoute ELSE ErrInvalidProxyRoutes

\* C18 witness: a repeated prefix before a mapping without separator
C18_Witness ==
    /\ Built
    /\ Len(routeMappings) = 3
    /\ InvalidAt = {3}
    /\ DuplicateAt = {2}
    /\ built.err = ErrInvalidProxyRoutes

\* C19: for a list of valid mappings with no repeated prefix the table is
\* built and Count() is the number of mappings given; IsEmpty() holds exactly
\* when Count() is 0; the empty list yields the empty table and no error.
C19_CountIsNumberOfMappings ==
    Built =>
        /\ (InvalidAt = {} /\ DuplicateAt = {}) =>
              built.err = NoError /\ Count(built) = Len(routeMappings)
        /\ IsEmpty(built) <=> (Count(built) = 0)
        /\ routeMappings = <<>> =>
              built = [err |-> NoError, routes |-> <<>>] /\ IsEmpty(built)

\* C19 witness: three mappings, two of them to the same backend, counted
C19_Witness ==
    /\ TableBuilt
    /\ Len(routeMappings) = 3
    /\ Count(built) = 3
    /\ ~IsEmpty(built)
    /\ built.routes[2].backendURL = built.routes[3].backendURL

----------------------------------------------------------------------------
(* Properties of the legacy constructor (checked under SpecLegacy) *)

\* the one-mapping list that stands for the two legacy arguments
LegacyAsMapping == <<legacyPathPrefix \o proxyMappingSeparator \o legacyBackendURL>>

----------------------------------------------------------------------------
(* Properties of route resolution (checked under SpecResolve) *)

Resolved == built # NotBuilt

\* the entries of serve.proxies that are not blank
ListMappingPresent == \E i \in 1..Len(serveProxies) : TrimSpace(serveProxies[i]) # <<>>

\* the table holds exactly the route of the legacy pair
LegacyPairUsed ==
    /\ built.err = NoError
    /\ Count(built) = 1
    /\ TrimSpace(legacyPathPrefix) # <<>>
    /\ built.routes = NewProxyRoutesFromLegacy(legacyPathPrefix, legacyBackendURL).routes

\* C21 as stated, a legacy value being non-empty when it is not the empty
\* string: a list mapping together with a non-empty legacy value is a
\* configuration error, and the legacy pair is used only without list mapping.
C21_ListAndLegacyExclusive ==
    Resolved =>
        /\ (ListMappingPresent /\ (legacyBackendURL # <<>> \/ legacyPathPrefix # <<>>)) =>
              built = [err |-> errInvalidProxyConfiguration, routes |-> <<>>]
        /\ LegacyPairUsed => ~ListMappingPresent

\* C21 amended: the legacy values are trimmed first. A list with a mapping
\* together with a legacy value that is not blank is a configuration error;
\* with both legacy values blank the list alone decides; the legacy pair is
\* used only when the list has no mapping.
C21_ListAndTrimmedLegacyExclusive ==
    Resolved =>
        /\ (ListMappingPresent
              /\ (TrimSpace(legacyBackendURL) # <<>> \/ TrimSpace(legacyPathPrefix) # <<>>)) =>
              built = [err |-> errInvalidProxyConfiguration, routes |-> <<>>]
        /\ (ListMappingPresent
              /\ TrimSpace(legacyBackendURL) = <<>> /\ TrimSpace(legacyPathPrefix) = <<>>) =>
              /\ built = NewProxyRoutes(routeMappings)
              /\ built.err # errInvalidProxyConfiguration
        /\ LegacyPairUsed => ~ListMappingPresent
        /\ (~ListMappingPresent
              /\ TrimSpace(legacyBackendURL) # <<>> /\ TrimSpace(legacyPathPrefix) # <<>>) =>
              built = NewProxyRoutesFromLegacy(legacyPathPrefix, legacyBackendURL)

\* C21 witness: a valid list mapping and a legacy backend, refused
C21_Witness ==
    /\ Resolved
    /\ serveProxies = <<Str_api \o Str_eq \o Str_httpH>>
    /\ legacyBackendURL = Str_httpG
    /\ legacyPathPrefix = <<>>
    /\ built.err = errInvalidProxyConfiguration

\* the comma-separated segments of every entry of a list, each as an entry of its own
RECURSIVE AsRepeatedEntries(_)
AsRepeatedEntries(entries) ==
    IF entries = <<>> THEN <<>>
    ELSE Split(Head(entries), Str_comma) \o AsRepeatedEntries(Tail(entries))

NonBlank(entries) == {i \in 1..Len(entries) : TrimSpace(entries[i]) # <<>>}

\* every entry that is not blank parses, and no two have the same prefix
ValidWithDistinctPrefixes(entries) ==
    /\ \A i \in NonBlank(entries) : parseProxyMapping(entries[i]).err = NoError
    /\ \A i, j \in NonBlank(entries) :
          i # j => parseProxyMapping(entries[i]).route.pathPrefix
                       # parseProxyMapping(entries[j]).route.pathPrefix

\* C22: resolving serve.proxies gives what resolving its comma-separated
\* segments as repeated entries gives, segments being trimmed and blank ones
\* dropped; when the n segments that are not blank are valid mappings with
\* distinct prefixes (and no legacy value is set) the table has n routes.
C22_CommaDelimitedAsRepeated ==
    Resolved =>
        LET repeated == AsRepeatedEntries(serveProxies)
        IN /\ routeMappings = normalizeProxyMappings(repeated)
           /\ \A i \in 1..Len(routeMappings) :
                 /\ routeMappings[i] = TrimSpace(routeMappings[i])
                 /\ routeMappings[i] # <<>>
                 /\ ~Contains(routeMappings[i], Str_comma)
           /\ built = resolveProxyRoutes(repeated, legacyBackendURL, legacyPathPrefix)
           /\ (/\ ValidWithDistinctPrefixes(repeated)
               /\ TrimSpace(legacyBackendURL) = <<>>
               /\ TrimSpace(legacyPathPrefix) = <<>>) =>
                 /\ built.err = NoError
                 /\ Count(built) = Cardinality(NonBlank(repeated))

\* C22 witness: one entry of two mappings among blanks and empty segments,
\* after a single mapping, built into a table of three routes
C22_Witness ==
    /\ Resolved
    /\ Len(serveProxies) = 2
    /\ ~Contains(serveProxies[1], Str_comma)
    /\ Contains(serveProxies[2], <<" ",","," ",",">>)
    /\ Len(AsRepeatedEntries(serveProxies)) = 5
    /\ TableBuilt
    /\ Count(built) = 3

----------------------------------------------------------------------------
(* Properties of the file handler chain (checked under SpecFiles) *)

\* the path of the request as the server received it
OriginalPath == IF visited = <<>> THEN urlPath ELSE visited[1].path

\* the request has been answered
Answered == served # NothingServed

\* the stages a configuration enables
StageEnabled(handlerName) ==
    CASE handlerName = "browse" -> configuration.BrowseDirectories
      [] handlerName = "markdown" -> configuration.EnableMarkdown
      [] handlerName = "directoryGuard" ->
             /\ configuration.DisableDirectoryListing
             /\ ~configuration.EnableMarkdown
             /\ ~configuration.BrowseDirectories
      [] handlerName = "initialFile" ->
             /\ configuration.InitialFileRelativePath # <<>>
             /\ ~configuration.BrowseDirectories
      [] OTHER -> TRUE

StageNames == {"browse", "markdown", "directoryGuard", "initialFile", "fileServer"}

\* the precedence of section 4.4, highest first (the proxy dispatcher is fifth)
StatedRank ==
    [browse |-> 1, markdown |-> 2, directoryGuard |-> 3, initialFile |-> 4, fileServer |-> 6]

\* the order in which buildFileHandler lets a request through the stages
ComposedRank ==
    [initialFile |-> 1, browse |-> 2, markdown |-> 3, directoryGuard |-> 4, fileServer |-> 5]

\* the stages saw the request in the order of rank, none that is enabled skipped
SeenInOrderOf(rank) ==
    /\ \A i, j \in 1..Len(visited) :
          i < j => rank[visited[i].handler] < rank[visited[j].handler]
    /\ \A i \in 1..Len(visited) : \A handlerName \in StageNames :
          (StageEnabled(handlerName) /\ rank[handlerName] < rank[visited[i].handler]) =>
              \E k \in 1..(i - 1) : visited[k].handler = handlerName

\* C23 as stated: the stages see a request in the order browse, Markdown,
\* directory guard, initial file, static handler, each only after every enabled
\* stage before it fell through, so the Markdown stage and the directory guard
\* examine the path the server received.
C23_StatedPrecedence ==
    /\ SeenInOrderOf(StatedRank)
    /\ \A i \in 1..Len(visited) :
          visited[i].handler \in {"markdown", "directoryGuard"} =>
              visited[i].path = OriginalPath

\* C23 amended: the stages see a request in the order initial file, browse,
\* Markdown or else directory guard, static handler, each only after every
\* enabled stage before it fell through and only while the request is
\* unanswered; the Markdown stage and the directory guard examine the path
\* after the initial-file rewrite of "/".
C23_ComposedPrecedence ==
    /\ SeenInOrderOf(ComposedRank)
    /\ Answered => stage = 0
    /\ \A i \in 1..Len(visited) :
          visited[i].handler \in {"markdown", "directoryGuard", "fileServer"} =>
              visited[i].path =
                  IF StageEnabled("initialFile") /\ OriginalPath = Str_slash
                  THEN initialRequestPath(configuration.InitialFileRelativePath)
                  ELSE OriginalPath

\* C23 witness: "/" rewritten to the initial Markdown file, which the Markdown
\* stage then renders
C23_Witness ==
    /\ Len(visited) = 2
    /\ visited[1] = [handler |-> "initialFile", path |-> Str_slash]
    /\ visited[2] = [handler |-> "markdown", path |-> Str_slash \o Str_notes_md]
    /\ served = ServeRendered(Str_slash \o Str_notes_md)

\* stage i of the chain has run and it wrote the response
AnsweredBy(i) == Len(visited) = i /\ stage = 0 /\ Answered

\* stage i of the chain has run and it called the next handler
PassedOn(i) ==
    /\ i \in 1..Len(visited)
    /\ Len(visited) > i \/ (stage = i + 1 /\ ~Answered)

\* a path that opens as a file that is no directory, and whose Stat succeeds
OpensAsFile(path) == Open(fileSystem, path).found /\ Open(fileSystem, path).kind = "file"

\* a path that opens as a directory whose entries can be read
OpensAsReadableDirectory(path) ==
    Open(fileSystem, path).found /\ Open(fileSystem, path).kind = "dir"

\* C24: in browse mode a request whose path is non-empty, does not end in "/"
\* and opens as a file that is no directory and no Markdown file is answered by
\* the browse stage with status 200 and the content of that file, without any
\* Location header; index.html is served the same way.
C24_BrowseServesFileDirectly ==
    \A i \in 1..Len(visited) :
        ( /\ visited[i].handler = "browse"
          /\ visited[i].path # <<>>
          /\ ~HasSuffix(visited[i].path, Str_slash)
          /\ OpensAsFile(visited[i].path)
          /\ ~isMarkdownFile(Base(visited[i].path)) ) =>
            /\ AnsweredBy(i)
            /\ served.status = StatusOK
            /\ served.kind = "file"
            /\ served.of = Clean(visited[i].path)
            /\ served.location = <<>>

\* C24 witness: /index.html requested in browse mode and served as a file
C24_Witness ==
    /\ configuration.BrowseDirectories
    /\ visited = <<[handler |-> "browse", path |-> Str_slash \o Str_index_html]>>
    /\ served = ServeContent(Str_slash \o Str_index_html)

\* the path stage i handed to the next handler
PassedPath(i) == IF Len(visited) > i THEN visited[i + 1].path ELSE urlPath

\* the browse stage serves this path as a direct file
DirectFileRequest(path) ==
    /\ path # <<>>
    /\ ~HasSuffix(path, Str_slash)
    /\ OpensAsFile(path)
    /\ ~isMarkdownFile(Base(path))

\* C25: in browse mode a request whose path ends in "/" and opens as a
\* readable directory is answered by the browse stage with the generated
\* listing of that directory, whatever index.html or README the directory
\* holds; every other request that is not served as a direct file (the path
\* does not open, its Stat fails, it ends in "/" and is no directory, the
\* directory cannot be read, the path is empty) is passed to the next handler
\* with its path unchanged.
C25_BrowseListsOrFallsThrough ==
    \A i \in 1..Len(visited) :
        visited[i].handler = "browse" =>
            IF HasSuffix(visited[i].path, Str_slash)
               /\ OpensAsReadableDirectory(visited[i].path)
            THEN /\ AnsweredBy(i)
                 /\ served = ServeListing(Clean(visited[i].path))
            ELSE ~DirectFileRequest(visited[i].path) =>
                     /\ PassedOn(i)
                     /\ PassedPath(i) = visited[i].path

\* C25 witness: "/" requested in browse mode of a directory that holds
\* index.html and README.md, and answered with the listing
C25_Witness ==
    /\ configuration.BrowseDirectories
    /\ indexCandidateExists(Open(fileSystem, Str_slash \o Str_index_html))
    /\ indexCandidateExists(Open(fileSystem, Str_slash \o Str_README_md))
    /\ visited = <<[handler |-> "browse", path |-> Str_slash]>>
    /\ served = ServeListing(Str_slash)

\* C26: with browse mode enabled the directory-listing-disabled setting has no
\* effect: no request is answered 403 "Directory listing disabled", and a
\* request whose path ends in "/" and opens as a readable directory is answered
\* with the listing.
C26_BrowseOverridesListingDisabled ==
    configuration.BrowseDirectories =>
        /\ ~(served.status = StatusForbidden
             /\ served.message = errorMessageDirectoryListingDisabled)
        /\ (/\ Answered
            /\ HasSuffix(OriginalPath, Str_slash)
            /\ OpensAsReadableDirectory(OriginalPath)) => served.kind = "listing"

\* C26 witness: browse mode with directory listing disabled and Markdown
\* rendering on, "/" answered with the listing
C26_Witness ==
    /\ configuration.BrowseDirectories
    /\ configuration.DisableDirectoryListing
    /\ configuration.EnableMarkdown
    /\ OriginalPath = Str_slash
    /\ served = ServeListing(Str_slash)

\* the handler that wrote the response
AnsweringHandler == visited[Len(visited)].handler

HoldsIndexFile(path) ==
    \E name \in {Str_index_html, Str_index_htm} :
        /\ Open(fileSystem, Join(path, name)).found
        /\ Open(fileSystem, Join(path, name)).kind = "file"

\* the Markdown stage, outside browse mode, saw at step i a trailing-slash
\* path that opens as a directory
MarkdownSawDirectory(i) ==
    /\ ~configuration.BrowseDirectories
    /\ visited[i].handler = "markdown"
    /\ HasSuffix(visited[i].path, Str_slash)
    /\ IsDir(Open(fileSystem, visited[i].path))

\* C28: outside browse mode with Markdown rendering enabled, a trailing-slash
\* request for a directory that holds a regular file named index.html or
\* index.htm is passed by the Markdown stage to the static handler and answered
\* with the content of that index file, whatever Markdown files the directory
\* holds.
C28_IndexFileServed ==
    \A i \in 1..Len(visited) :
        (MarkdownSawDirectory(i) /\ HoldsIndexFile(visited[i].path)) =>
            /\ PassedOn(i)
            /\ Answered =>
                  /\ AnsweringHandler = "fileServer"
                  /\ served.kind = "file"
                  /\ \E name \in {Str_index_html, Str_index_htm} :
                        served.of = Join(visited[i].path, name)

\* the names of the Markdown files, directories left out, in the directory at
\* this path
MarkdownFilesIn(path) ==
    { Readdir(fileSystem, path)[k].name : k \in
        { n \in 1..Len(Readdir(fileSystem, path)) :
            /\ Readdir(fileSystem, path)[n].kind = "file"
            /\ isMarkdownFile(Readdir(fileSystem, path)[n].name) } }

\* those of them called README.md, letter case ignored
ReadmesIn(path) == { name \in MarkdownFilesIn(path) : ToLower(name) = ToLower(Str_README_md) }

HasMarkdownCandidate(path) ==
    ReadmesIn(path) # {} \/ Cardinality(MarkdownFilesIn(path)) = 1

\* C30: outside browse mode with Markdown rendering enabled, a trailing-slash
\* request for a directory is answered 403 "Directory listing disabled", by the
\* Markdown stage, exactly when directory listing is disabled and the directory
\* has neither an index file nor a Markdown candidate; with listing enabled
\* and neither of them the request is passed to the static handler unchanged.
C30_ForbiddenWithoutIndexOrCandidate ==
    \A i \in 1..Len(visited) :
        MarkdownSawDirectory(i) =>
            LET nothingToServe == /\ ~HoldsIndexFile(visited[i].path)
                                  /\ ~HasMarkdownCandidate(visited[i].path)
            IN /\ (configuration.DisableDirectoryListing /\ nothingToServe) =>
                      /\ AnsweredBy(i)
                      /\ served = Error(errorMessageDirectoryListingDisabled, StatusForbidden)
               /\ ~(configuration.DisableDirectoryListing /\ nothingToServe) =>
                      served.status # StatusForbidden
               /\ (~configuration.DisableDirectoryListing /\ nothingToServe) =>
                      /\ PassedOn(i)
                      /\ PassedPath(i) = visited[i].path
                      /\ Len(visited) > i => visited[i + 1].handler = "fileServer"

\* C30 witness: listing disabled, a directory with two Markdown files, none of
\* them a README, and no index; "/" is answered 403 by the Markdown stage
C30_Witness ==
    /\ configuration.DisableDirectoryListing
    /\ Cardinality(MarkdownFilesIn(Str_slash)) = 2
    /\ visited = <<[handler |-> "markdown", path |-> Str_slash]>>
    /\ served = Error(errorMessageDirectoryListingDisabled, StatusForbidden)

\* Markdown rendering off, browse mode off and directory listing disabled
GuardConfigured ==
    /\ ~configuration.EnableMarkdown
    /\ ~configuration.BrowseDirectories
    /\ configuration.DisableDirectoryListing

\* C31: with Markdown rendering off, browse mode off and directory listing
\* disabled the directory guard sees every request before the static handler
\* does; it answers 403 "Directory listing disabled" to every path that ends
\* in "/", whether or not a directory is there and whatever it holds, and
\* passes every other path unchanged to the static handler.
C31_GuardRejectsTrailingSlash ==
    GuardConfigured =>
        /\ \A i \in 1..Len(visited) :
              visited[i].handler = "fileServer" =>
                  i > 1 /\ visited[i - 1].handler = "directoryGuard"
        /\ \A i \in 1..Len(visited) :
              visited[i].handler = "directoryGuard" =>
                  IF HasSuffix(visited[i].path, Str_slash)
                  THEN /\ AnsweredBy(i)
                       /\ served = Error(errorMessageDirectoryListingDisabled,
                                         StatusForbidden)
                  ELSE /\ PassedOn(i)
                       /\ PassedPath(i) = visited[i].path
        /\ (configuration.InitialFileRelativePath = <<>> /\ Answered) =>
              (HasSuffix(OriginalPath, Str_slash) <=>
                   served = Error(errorMessageDirectoryListingDisabled, StatusForbidden))

\* C31 witness: the guard refuses /missing/, a path at which nothing exists
C31_Witness ==
    /\ GuardConfigured
    /\ ~Open(fileSystem, <<"/", "m", "i", "s", "s", "i", "n", "g", "/">>).found
    /\ visited = <<[handler |-> "directoryGuard",
                    path |-> <<"/", "m", "i", "s", "s", "i", "n", "g", "/">>]>>
    /\ served.status = StatusForbidden

\* what the handler of that name does with a request for the path
HandlerOutcome(handlerName, path) ==
    CASE handlerName = "initialFile" ->
             initialFileServeHTTP(configuration.InitialFileRelativePath, path)
      [] handlerName = "browse" -> browseServeHTTP(fileSystem, path)
      [] handlerName = "markdown" ->
             markdownServeHTTP(fileSystem, path, configuration.DisableDirectoryListing,
                               ~configuration.BrowseDirectories)
      [] handlerName = "directoryGuard" -> directoryGuardServeHTTP(path)
      [] OTHER -> fileServerServeHTTP(fileSystem, path)

\* the response of the chain from its handler number first on to a request
\* for the path
RECURSIVE ChainAnswer(_, _)
ChainAnswer(first, path) ==
    IF HandlerOutcome(handlers[first], path).next
    THEN ChainAnswer(first + 1, HandlerOutcome(handlers[first], path).path)
    ELSE HandlerOutcome(handlers[first], path).response

\* the request path of the configured initial file
ConfiguredFilePath == Str_slash \o ReplaceBackslashes(configuration.InitialFileRelativePath)

----------------------------------------------------------------------------
(* Properties of the logging wrapper (checked under SpecLogging) *)

\* the status codes of the WriteHeader calls among these calls, in order
RECURSIVE ExplicitStatuses(_)
ExplicitStatuses(calls) ==
    IF calls = <<>> THEN <<>>
    ELSE IF calls[1].call = "WriteHeader"
    THEN <<calls[1].statusCode>> \o ExplicitStatuses(Tail(calls))
    ELSE ExplicitStatuses(Tail(calls))

\* the bytes the server's writer accepted over these calls
RECURSIVE AcceptedBytes(_)
AcceptedBytes(calls) ==
    IF calls = <<>> THEN 0 ELSE calls[1].written + AcceptedBytes(Tail(calls))

RECURSIVE RecorderAfter(_, _)
RecorderAfter(recorder, calls) ==
    IF calls = <<>> THEN recorder
    ELSE RecorderAfter(IF calls[1].call = "WriteHeader"
                       THEN [recorder EXCEPT !.statusCode = calls[1].statusCode]
                       ELSE [recorder EXCEPT !.bytesWritten = @ + calls[1].written],
                       Tail(calls))

\* C34: every request has a recorder of its own, made when the wrapper is
\* called with the request: under every interleaving of the requests the
\* recorder of a request, and the status and byte count logged for it, are
\* those its own calls of WriteHeader and Write produce, whatever the handlers
\* of other requests wrote meanwhile.
C34_RecorderIsRequestLocal ==
    \A r \in LoggedRequests :
        /\ logged[r].phase = "notStarted" => recorders[r] = NoRecorder
        /\ logged[r].phase # "notStarted" =>
               recorders[r] = RecorderAfter(newRecorder, writerCalls[r])
        /\ logged[r].phase = "logged" =>
               /\ logged[r].statusCode =
                      RecorderAfter(newRecorder, writerCalls[r]).statusCode
               /\ logged[r].bytesWritten = AcceptedBytes(writerCalls[r])

\* C34 witness: two requests served at the same time, one logged with 404 and
\* two bytes while the other, which wrote 500 and no bytes, is still served
C34_Witness ==
    /\ logged["r1"] = [phase |-> "logged", statusCode |-> StatusNotFound, bytesWritten |-> 2]
    /\ logged["r2"] = [phase |-> "serving", statusCode |-> 0, bytesWritten |-> 0]
    /\ recorders["r2"].statusCode = StatusInternalServerError
    /\ recorders["r2"].bytesWritten = 0

----------------------------------------------------------------------------
(* Properties of FileServer.Serve (checked under FairSpecServe) *)

\* Serve returned after it had started to serve
ReturnedFromServing ==
    /\ serveReturn.returned
    /\ serveReturn.err \in {"", "shutdown server", "address in use", "serve http"}

\* the step in which Serve returns from the shutdown it started: nil when no
\* request was left, an error when the grace period ended first
ShutdownOutcome ==
    (servePc = "shuttingDown" /\ servePc' = "returned") =>
        serveReturn' = [returned |-> TRUE,
                        err |-> IF inFlight = {} THEN "" ELSE "shutdown server"]

\* the step in which Serve returns because ListenAndServe returned
ListenerFailureOutcome ==
    (servePc = "serving" /\ servePc' = "returned") =>
        /\ serverErrors # <<>>
        /\ Head(serverErrors) # "ErrServerClosed"
        /\ serveReturn' = [returned |-> TRUE,
                           err |-> IF Head(serverErrors) = "EADDRINUSE"
                                   THEN "address in use" ELSE "serve http"]

\* C35: once Serve serves it returns only after its context was cancelled or
\* ListenAndServe failed. Taking the cancellation it calls Shutdown and
\* returns nil when Shutdown succeeds and an error when the grace period ends
\* first; taking a failure of the listener it returns an error, which is
\* "address in use" when the port was bound already. A cancelled context or
\* a failed listener leads to the return of Serve.
C35_ServeUntilCancelledOrFailed ==
    /\ [](ReturnedFromServing => (ctxDone \/ listener = "failed"))
    /\ []((ReturnedFromServing /\ serveReturn.err \in {"", "shutdown server"}) => ctxDone)
    /\ []((ReturnedFromServing /\ serveReturn.err \in {"address in use", "serve http"}) =>
              listener = "failed")
    /\ []((serveReturn.returned /\ serveReturn.err = "") =>
              (inFlight = {} /\ listener # "listening"))
    /\ [][ShutdownOutcome /\ ListenerFailureOutcome]_vars
    /\ (servePc = "serving" /\ ctxDone) ~> serveReturn.returned
    /\ (servePc = "serving" /\ listener = "failed") ~> serveReturn.returned

\* C35 witness: the port was in use and Serve returned "address in use"
\* with its context not cancelled
C35_Witness ==
    /\ ~ctxDone
    /\ listener = "failed"
    /\ serveReturn = [returned |-> TRUE, err |-> "address in use"]

----------------------------------------------------------------------------
(* The connections of a returned tunnel handler (C36 under Spec) *)

TunnelHandlerReturned == handledBy = "webSocket" /\ pc = "done"

\* C36: when the tunnel handler has returned, whatever the path it took, the
\* backend connection is closed if the dial succeeded, the 500s of a writer
\* without Hijack and of a failed Hijack included, and the client connection
\* is closed if the takeover succeeded; a connection it never acquired is
\* not there to close.
C36_AcquiredConnectionsClosed ==
    TunnelHandlerReturned =>
        /\ backendConn # "open" /\ clientConn # "open"
        /\ dialErr = "nil" => backendConn = "closed"
        /\ dialFailed(dialErr) => backendConn = "none" /\ clientConn = "none"
        /\ (hijackCalled /\ writer = "hijackable") => clientConn = "closed"
        /\ (dialErr = "nil" /\ ( ~supportsHijacker(writer) \/ writer = "hijackFails")) =>
              /\ response = InternalServerErrorResponse
              /\ backendConn = "closed"
              /\ clientConn = "none"

\* C36 witness: the writer has no Hijack method, the handler answered 500
\* and the backend connection it had dialed is closed
C36_Witness ==
    /\ TunnelHandlerReturned
    /\ ~supportsHijacker(writer)
    /\ ~hijackCalled
    /\ dialErr = "nil"
    /\ backendConn = "closed"
    /\ response.status = StatusInternalServerError

----------------------------------------------------------------------------
(* internal/server/proxy_handler.go: requests dispatched concurrently by one
   proxyHandler. Every request runs ServeHTTP in a goroutine of its own;
   matchRoute walks handler.routes one element at a time *)

DispatchIds == {"d1", "d2"}

\* the requests dispatched: a plain one and an upgrade of a path under both
\* routes, under one route and under none
DispatchedRequests ==
    { GetRequest(path, header[1], header[2]) :
        path \in { Str_api \o Str_internal \o <<"/","x">>,
                   Str_api \o <<"/","o","t","h","e","r">>,
                   <<"/","s","t","a","t","i","c">> },
        header \in { <<<<>>, <<>>>>, <<<<Str_Upgrade>>, <<valueWebSocket>>>> } }

NotDispatched == [pc |-> "idle", request |-> NoRequest, routeIndex |-> 0, handledBy |-> "none"]

\* a matchRoute that moves the route it matched to the head of the slice
routesMatchedFirst(routes, routeIndex) ==
    <<routes[routeIndex]>> \o SubSeq(routes, 1, routeIndex - 1)
                           \o SubSeq(routes, routeIndex + 1, Len(routes))

\* handler.routes after matchRoute matched the element at routeIndex: it
\* takes the element's address and assigns nothing
routesAfterMatch(routes, routeIndex) == routes

DispatchInit ==
    /\ serveProxies = <<>>
    /\ legacyPathPrefix = <<>>
    /\ legacyBackendURL = <<>>
    /\ routeMappings \in ServeMappingLists
    /\ built = NewProxyRoutes(routeMappings)
    /\ matchPath = NoPath
    /\ matchResult = 0
    /\ RequestInit
    /\ FileServerUnused
    /\ LoggingUnused
    /\ ServeUnused
    /\ BuffersUnused
    /\ dispatches = [d \in DispatchIds |-> NotDispatched]

DispatchFrame == <<fileVars, logVars, serveVars, bufferVars, serveProxies, legacyPathPrefix,
                   legacyBackendURL, routeMappings, matchPath, matchResult,
                   requestVars, tunnelVars>>

\* the server calls handler.ServeHTTP with a request; matchRoute starts at
\* the first route
DispatchServeHTTP(d) ==
    /\ dispatches[d].pc \in {"idle", "returned"}
    /\ \E req \in DispatchedRequests :
           dispatches' = [dispatches EXCEPT ![d] =
                             [pc |-> "matchRoute", request |-> req, routeIndex |-> 1,
                              handledBy |-> "none"]]
    /\ UNCHANGED <<built, DispatchFrame>>

\* one turn of the loop of matchRoute, and after it the branch ServeHTTP
\* takes: handler.next when no route matched, handleWebSocket for an upgrade
\* request, the route's httpProxy otherwise
DispatchMatchRoute(d) ==
    LET dispatch   == dispatches[d]
        routeIndex == dispatch.routeIndex
    IN
    /\ dispatch.pc = "matchRoute"
    /\ IF routeIndex > Len(HandlerRoutes)
       THEN /\ dispatches' = [dispatches EXCEPT ![d] =
                                 [dispatch EXCEPT !.pc = "serving", !.routeIndex = 0,
                                                  !.handledBy = "next"]]
            /\ UNCHANGED built
       ELSE IF HasPrefix(dispatch.request.Path, HandlerRoutes[routeIndex].pathPrefix)
       THEN /\ dispatches' = [dispatches EXCEPT ![d] =
                                 [dispatch EXCEPT !.pc = "serving",
                                                  !.handledBy =
                                                      IF isWebSocketUpgrade(dispatch.request)
                                                      THEN "webSocket" ELSE "httpProxy"]]
            /\ built' = [built EXCEPT !.routes = routesAfterMatch(built.routes, routeIndex)]
       ELSE /\ dispatches' = [dispatches EXCEPT ![d] =
                                 [dispatch EXCEPT !.routeIndex = routeIndex + 1]]
            /\ UNCHANGED built
    /\ UNCHANGED DispatchFrame

\* the handler the request was delegated to returns, and ServeHTTP with it
DispatchReturns(d) ==
    /\ dispatches[d].pc = "serving"
    /\ dispatches' = [dispatches EXCEPT ![d].pc = "returned"]
    /\ UNCHANGED <<built, DispatchFrame>>

DispatchNext ==
    \E d \in DispatchIds :
        \/ DispatchServeHTTP(d)
        \/ DispatchMatchRoute(d)
        \/ DispatchReturns(d)

SpecDispatch == DispatchInit /\ [][DispatchNext]_vars

----------------------------------------------------------------------------
(* The route table under concurrent dispatch (C37 under SpecDispatch) *)

\* the ServeHTTP call of d has chosen its branch
DispatchDecided(d) == dispatches[d].pc \in {"serving", "returned"}

\* C37: the routes of the handler and their order are those made at
\* construction, whatever requests were dispatched and however their
\* ServeHTTP calls interleave; a dispatched request has the route and the
\* branch that its path and headers select in that table, so two requests
\* of one path have the same route.
C37_RouteTableNeverModified ==
    /\ built = NewProxyRoutes(routeMappings)
    /\ \A d \in DispatchIds :
          DispatchDecided(d) =>
              /\ dispatches[d].routeIndex =
                     matchRoute(NewProxyRoutes(routeMappings).routes, dispatches[d].request.Path)
              /\ dispatches[d].handledBy =
                     IF dispatches[d].routeIndex = 0 THEN "next"
                     ELSE IF isWebSocketUpgrade(dispatches[d].request) THEN "webSocket"
                     ELSE "httpProxy"
    /\ \A d, other \in DispatchIds :
          (DispatchDecided(d) /\ DispatchDecided(other)
             /\ dispatches[d].request.Path = dispatches[other].request.Path) =>
              dispatches[d].routeIndex = dispatches[other].routeIndex

\* C37 witness: while the tunnel of an upgrade request under the second
\* route is served, a plain request under both routes was proxied by the first
C37_Witness ==
    /\ dispatches["d1"].pc = "serving"
    /\ dispatches["d1"].handledBy = "webSocket"
    /\ dispatches["d1"].routeIndex = 2
    /\ dispatches["d2"].pc = "returned"
    /\ dispatches["d2"].handledBy = "httpProxy"
    /\ dispatches["d2"].routeIndex = 1
    /\ dispatches["d2"].request.Path = Str_api \o Str_internal \o <<"/","x">>

----------------------------------------------------------------------------
(* The upgrade request (C38 under Spec) *)

SetByTunnel == {headerConnection, headerUpgrade, headerHost}

----------------------------------------------------------------------------
(* Relaying after a response of any status (C39 under FairSpec) *)

ResponseParsed == handledBy = "webSocket" /\ pc = "relayResponse"

\* the Write of the backend's response to the client returns nil
ResponseRelaySucceeds == RelayBackendResponse /\ pc' = "startRelay"

\* C39 as stated: a tunnel whose backend response parsed goes on to relay
C39_RelayingAfterAnyParsedResponse ==
    ResponseParsed ~> (TunnelState = "Relaying")

\* C39: whatever the status of the parsed response, 101 or another, its
\* relay to the client can succeed, the step after the parse either relays
\* the whole response and goes on to start the loops or fails in the Write
\* and ends the tunnel with no loop started, and after a relay that
\* succeeded both loops are started.
C39_RelaysWhateverTheStatus ==
    /\ [](ResponseParsed =>
            /\ backendResponse.status \in HandshakeStatuses
            /\ ENABLED ResponseRelaySucceeds)
    /\ [][ (ResponseParsed /\ pc' # pc) =>
              \/ /\ pc' = "startRelay"
                 /\ response' = backendResponse
              \/ /\ pc' = "done"
                 /\ response' \in PartialWrites(backendResponse)
                 /\ c2b' = "none" /\ b2c' = "none"
       ]_vars
    /\ [][ (pc = "startRelay" /\ pc' # pc) =>
              /\ TunnelState' = "Relaying"
              /\ c2b' = "copying" /\ b2c' = "copying"
              /\ response' = backendResponse
       ]_vars
    /\ (pc = "startRelay") ~> (TunnelState = "Relaying")
    /\ ResponseParsed ~> (TunnelState = "Relaying" \/ ResponseRelayFailed)

\* C39 witness: the backend answered 404, the answer went to the client
\* and both loops run
C39_Witness ==
    /\ TunnelState = "Relaying"
    /\ backendResponse.status = StatusNotFound
    /\ response = backendResponse
    /\ c2b = "copying"
    /\ b2c = "copying"

----------------------------------------------------------------------------
(* internal/server/proxy_handler.go: the bytes of one tunnel whose dial,
   takeover and handshake succeed, with the two buffered readers: the one
   Hijack returns with the client connection and the one handleWebSocket
   puts on the backend connection to read the response. clientStream and
   backendStream are here the bytes still on the connections *)

\* a tunnel that drops the reader Hijack returned and reads the client
\* connection itself
hijackedBufferDiscarded(buffered) == <<>>

\* clientBuffer as Hijack returns it and as copyWithBuffer gets it for its
\* source: the server's reader with the bytes it had read
hijackedBuffer(buffered) == buffered

BoundaryInit ==
    /\ serveProxies = <<>>
    /\ legacyPathPrefix = <<>>
    /\ legacyBackendURL = <<>>
    /\ routeMappings = <<>>
    /\ built = NotBuilt
    /\ matchPath = NoPath
    /\ matchResult = 0
    /\ RequestInit
    /\ FileServerUnused
    /\ LoggingUnused
    /\ ServeUnused
    /\ DispatchUnused
    /\ BuffersUnused

BoundaryFrame == <<fileVars, logVars, serveVars, dispatchVars, routeVars, request, writer,
                   handledBy, nextRequest, outRequest, backendResponse, response,
                   contacted, failedBefore, dialErr, backendConn, clientConn,
                   hijackCalled, upgradeSent, completionSignals, clientEOF, backendEOF>>

\* the server has read an upgrade request and the backend is dialed
TunnelDialed ==
    /\ pc = "idle"
    /\ pc' = "hijack"
    /\ UNCHANGED <<c2b, b2c, clientSent, backendSent, clientStream, backendStream,
                   backendIn, clientIn, bufferVars, BoundaryFrame>>

\* the client writes a byte behind its request
ClientSends ==
    /\ pc \in {"hijack", "readResponse", "relayResponse", "wait"}
    /\ clientSent < MaxBytes
    /\ clientSent' = clientSent + 1
    /\ clientStream' = Append(clientStream, clientSent + 1)
    /\ UNCHANGED <<pc, c2b, b2c, backendSent, backendStream, backendIn, clientIn,
                   bufferVars, BoundaryFrame>>

\* before the takeover the server's reader of the client connection reads
\* what has arrived behind the request
ServerBuffers ==
    /\ pc = "hijack"
    /\ clientStream # <<>>
    /\ \E n \in 1..Len(clientStream) :
        /\ clientBuffer' = clientBuffer \o SubSeq(clientStream, 1, n)
        /\ clientStream' = SubSeq(clientStream, n + 1, Len(clientStream))
    /\ UNCHANGED <<pc, c2b, b2c, clientSent, backendSent, backendStream, backendIn,
                   clientIn, backendReader, BoundaryFrame>>

\* hijacker.Hijack() returns clientConnection and clientBuffer, and the
\* upgrade request is written
HijackReturns ==
    /\ pc = "hijack"
    /\ pc' = "readResponse"
    /\ clientBuffer' = hijackedBuffer(clientBuffer)
    /\ UNCHANGED <<c2b, b2c, clientSent, backendSent, clientStream, backendStream,
                   backendIn, clientIn, backendReader, BoundaryFrame>>

\* the backend writes a byte behind its response to the upgrade request
BackendSends ==
    /\ pc \in {"readResponse", "relayResponse", "wait"}
    /\ backendSent < MaxBytes
    /\ backendSent' = backendSent + 1
    /\ backendStream' = Append(backendStream, backendSent + 1)
    /\ UNCHANGED <<pc, c2b, b2c, clientSent, clientStream, backendIn, clientIn,
                   bufferVars, BoundaryFrame>>

\* http.ReadResponse(backendReader, upgradeRequest): the reader fills its
\* buffer with the response and with what has arrived behind it
ReadResponseBuffers ==
    /\ pc = "readResponse"
    /\ pc' = "relayResponse"
    /\ \E n \in 0..Len(backendStream) :
        /\ backendReader' = SubSeq(backendStream, 1, n)
        /\ backendStream' = SubSeq(backendStream, n + 1, Len(backendStream))
    /\ UNCHANGED <<c2b, b2c, clientSent, backendSent, clientStream, backendIn, clientIn,
                   clientBuffer, BoundaryFrame>>

\* backendResponse.Write(clientConnection) and the two go statements
StartRelayLoops ==
    /\ pc = "relayResponse"
    /\ pc' = "wait"
    /\ c2b' = "copying"
    /\ b2c' = "copying"
    /\ UNCHANGED <<clientSent, backendSent, clientStream, backendStream, backendIn,
                   clientIn, bufferVars, BoundaryFrame>>

\* copyWithBuffer(backendConnection, clientBuffer): the reader hands out what
\* it holds, and reads the connection when it holds nothing
CopyFromClientBuffer ==
    /\ pc = "wait"
    /\ c2b = "copying"
    /\ IF clientBuffer # <<>>
       THEN /\ backendIn' = backendIn \o clientBuffer
            /\ clientBuffer' = <<>>
            /\ UNCHANGED clientStream
       ELSE /\ clientStream # <<>>
            /\ \E n \in 1..Len(clientStream) :
                /\ backendIn' = backendIn \o SubSeq(clientStream, 1, n)
                /\ clientStream' = SubSeq(clientStream, n + 1, Len(clientStream))
            /\ UNCHANGED clientBuffer
    /\ UNCHANGED <<pc, c2b, b2c, clientSent, backendSent, backendStream, clientIn,
                   backendReader, BoundaryFrame>>

\* copyWithBuffer(clientConnection, backendReader)
CopyFromBackendReader ==
    /\ pc = "wait"
    /\ b2c = "copying"
    /\ IF backendReader # <<>>
       THEN /\ clientIn' = clientIn \o backendReader
            /\ backendReader' = <<>>
            /\ UNCHANGED backendStream
       ELSE /\ backendStream # <<>>
            /\ \E n \in 1..Len(backendStream) :
                /\ clientIn' = clientIn \o SubSeq(backendStream, 1, n)
                /\ backendStream' = SubSeq(backendStream, n + 1, Len(backendStream))
            /\ UNCHANGED backendReader
    /\ UNCHANGED <<pc, c2b, b2c, clientSent, backendSent, clientStream, backendIn,
                   clientBuffer, BoundaryFrame>>

\* a copy ends and the handler returns
RelayLoopsEnd ==
    /\ pc = "wait"
    /\ pc' = "done"
    /\ c2b' = "done"
    /\ b2c' = "done"
    /\ UNCHANGED <<clientSent, backendSent, clientStream, backendStream, backendIn,
                   clientIn, bufferVars, BoundaryFrame>>

BoundaryNext ==
    \/ TunnelDialed
    \/ ClientSends
    \/ ServerBuffers
    \/ HijackReturns
    \/ BackendSends
    \/ ReadResponseBuffers
    \/ StartRelayLoops
    \/ CopyFromClientBuffer
    \/ CopyFromBackendReader
    \/ RelayLoopsEnd

SpecBoundary == BoundaryInit /\ [][BoundaryNext]_vars

----------------------------------------------------------------------------
(* The bytes buffered at the start of the relay (C40 under SpecBoundary) *)

\* C40: what the backend got, then what the reader taken over with the
\* client connection holds, then what is still on the client connection are
\* together the bytes the client wrote, in the order it wrote them, and so
\* for the other direction with the reader of the backend connection; no
\* byte is relayed before the loops run, and a copy made while a reader
\* holds bytes delivers those bytes.
C40_NoBytesLostAtBoundary ==
    /\ [](/\ backendIn \o clientBuffer \o clientStream = BytesWritten(clientSent)
          /\ clientIn \o backendReader \o backendStream = BytesWritten(backendSent)
          /\ pc \notin {"wait", "done"} => backendIn = <<>> /\ clientIn = <<>>)
    /\ [][ /\ (clientBuffer # <<>> /\ backendIn' # backendIn) =>
                  backendIn' = backendIn \o clientBuffer
           /\ (backendReader # <<>> /\ clientIn' # clientIn) =>
                  clientIn' = clientIn \o backendReader
       ]_vars

\* C40 witness: the loops run; the byte the backend's reader had buffered
\* has reached the client and a later byte waits on the backend connection,
\* while the byte taken over with the client connection is still buffered
\* and a later byte waits on the client connection
C40_Witness ==
    /\ pc = "wait"
    /\ clientIn = <<1>>
    /\ backendReader = <<>>
    /\ backendStream = <<2>>
    /\ clientBuffer = <<1>>
    /\ clientStream = <<2>>
    /\ backendIn = <<>>

====
